---- MODULE Spec2Model ----
(***************************************************************************)
(* State-machine model of the crapmodels widgets: the text list            *)
(* (package tm, TextModel), the filtering/sorting table and the plain      *)
(* table (package table, TableModel), the checkbox, the tabs and the quit  *)
(* dialog (package window, QuitModel).  Every widget method has a value     *)
(* receiver and returns the changed model; the host stores the result, so  *)
(* an operation is one atomic step that replaces the widget value.         *)
(*                                                                         *)
(* Indices (selectedLine, scrolledTop, display-line numbers) keep Go's     *)
(* 0-based values; TLA+ sequences are 1-based, so row i is content[i+1].   *)
(* A text is a sequence of one-character strings.                          *)
(***************************************************************************)
EXTENDS Integers, Sequences, FiniteSets, TLC

VARIABLES widget, text, table, plain, checkbox, tabs, quit, arrays, models, last

vars == <<widget, text, table, plain, checkbox, tabs, quit, arrays, models, last>>

(***************************************************************************)
(* Bounds of the model.                                                    *)
(***************************************************************************)
MaxRows == 3
MaxDelta == 2

Max(a, b) == IF a >= b THEN a ELSE b

\* Row texts the host may pass: an empty row, and a row of a long token and
\* a short one, which wraps to 4 display lines at width 4 and to 3 at width 5.
RowTexts ==
    { <<>>,
      <<"a", "b", "c", "d", "e", " ", "f", "g">> }

RECURSIVE SeqsUpTo(_, _)
SeqsUpTo(S, n) ==
    IF n = 0 THEN { <<>> }
    ELSE LET shorter == SeqsUpTo(S, n - 1)
         IN  shorter \cup { Append(s, x) : s \in shorter, x \in S }

\* The <<width, height>> pairs the host may pass to SetSize or receive in a
\* window-size message: text width 0; text width 2 with one visible line;
\* text width 3 with four visible lines.  A new widget has width 0 and
\* height 0 until the first SetSize.
Sizes == { <<2, 3>>, <<4, 3>>, <<5, 6>> }

\* The fault field of a model records how the call that produced it ended:
\* "none" when it returned, "panic" when it panicked (index or slice out of
\* range), "hang" when it never returns (a loop that makes no progress).

(***************************************************************************)
(* Go map and slice access.                                                *)
(***************************************************************************)
\* m[k] on a map[int]int: the zero value when the key is absent.
MapGetInt(m, k) == IF k \in DOMAIN m THEN m[k] ELSE 0
\* m[k] on a map[int][]int: the nil slice when the key is absent.
MapGetSeq(m, k) == IF k \in DOMAIN m THEN m[k] ELSE <<>>
\* s[lo:hi] with 0-based half-open bounds.
Slice(s, lo, hi) == SubSeq(s, lo + 1, hi)
EmptyMap == [k \in {} |-> 0]

(***************************************************************************)
(* wordwrap.String of muesli/reflow, for texts of letters and spaces.      *)
(***************************************************************************)
WWaddSpace(w) ==
    [w EXCEPT !.lineLen = @ + Len(w.space), !.buf = @ \o w.space, !.space = <<>>]

WWaddWord(w) ==
    IF Len(w.word) > 0
    THEN LET s == WWaddSpace(w)
         IN  [s EXCEPT !.lineLen = @ + Len(s.word), !.buf = @ \o s.word, !.word = <<>>]
    ELSE w

WWaddNewLine(w) ==
    [w EXCEPT !.buf = Append(@, "\n"), !.lineLen = 0, !.space = <<>>]

\* The writer after one more character c.
WWWriteChar(w, c, limit) ==
    IF c = " "
    THEN [WWaddWord(w) EXCEPT !.space = Append(@, c)]
    ELSE LET w1 == [w EXCEPT !.word = Append(@, c)]
         IN  IF /\ w1.lineLen + Len(w1.space) + Len(w1.word) > limit
                /\ Len(w1.word) < limit
             THEN WWaddNewLine(w1)
             ELSE w1

\* Write: the characters of s from the i-th on, in order.  (w1 \in {e} names
\* the value of e.)
RECURSIVE WWWrite(_, _, _, _)
WWWrite(s, i, limit, w) ==
    IF i > Len(s) THEN w
    ELSE CHOOSE r \in { WWWrite(s, i + 1, limit, w1) :
                           w1 \in { WWWriteChar(w, s[i], limit) } } : TRUE

WWClose(w, limit) ==
    LET w1 == IF Len(w.word) = 0
              THEN IF w.lineLen + Len(w.space) > limit
                   THEN [w EXCEPT !.lineLen = 0, !.space = <<>>]
                   ELSE [w EXCEPT !.buf = @ \o w.space, !.space = <<>>]
              ELSE w
    IN  WWaddWord(w1)

WordWrap(s, limit) ==
    IF limit = 0 THEN s
    ELSE WWClose(WWWrite(s, 1, limit,
                         [buf |-> <<>>, space |-> <<>>, word |-> <<>>, lineLen |-> 0]),
                 limit).buf

\* strings.Split(s, "\n"): always at least one piece.  acc holds the pieces
\* so far, the last of them still open.
RECURSIVE SplitLines(_, _, _)
SplitLines(s, i, acc) ==
    IF i > Len(s) THEN acc
    ELSE CHOOSE r \in { SplitLines(s, i + 1, acc1) :
                           acc1 \in { IF s[i] = "\n" THEN Append(acc, <<>>)
                                      ELSE [acc EXCEPT ![Len(acc)] = Append(@, s[i])] } } : TRUE

(***************************************************************************)
(* Text list: package tm, TextModel.                                       *)
(***************************************************************************)
\* A hard split whose tail starts at the last slice instead of after it:
\* w[z:] for the w[z+m.width-2:] of textModel.go:492.
RECURSIVE HardSplitLoopTailAtZ(_, _, _, _, _)
HardSplitLoopTailAtZ(w, width, i, z, acc) ==
    IF i < Len(w) - 1 - width - 2 + 5
    THEN HardSplitLoopTailAtZ(w, width, i + (width - 2), i,
                              Append(acc, Slice(w, i, i + width - 2)))
    ELSE Append(acc, Slice(w, z, Len(w)))

\* The hard split of one wrapped line w (textModel.go:487-492): the counting
\* loop and the tail that follows it.
RECURSIVE HardSplitLoop(_, _, _, _, _)
HardSplitLoop(w, width, i, z, acc) ==
    IF i < Len(w) - 1 - width - 2 + 5
    THEN HardSplitLoop(w, width, i + (width - 2), i, Append(acc, Slice(w, i, i + width - 2)))
    ELSE Append(acc, Slice(w, z + width - 2, Len(w)))

\* One line of the wrapped row: [fault, lines].
SplitPiece(w, width) ==
    IF Len(w) - 1 >= width - 2
    THEN IF 0 < Len(w) - 1 - width - 2 + 5
         THEN IF width - 2 < 0 THEN [fault |-> "panic", lines |-> <<>>]
              ELSE IF width - 2 = 0 THEN [fault |-> "hang", lines |-> <<>>]
              ELSE [fault |-> "none", lines |-> HardSplitLoop(w, width, 0, 0, <<>>)]
         ELSE IF width - 2 < 0 \/ width - 2 > Len(w)
              THEN [fault |-> "panic", lines |-> <<>>]
              ELSE [fault |-> "none", lines |-> << Slice(w, width - 2, Len(w)) >>]
    ELSE [fault |-> "none", lines |-> << w >>]

RECURSIVE SplitPieces(_, _, _)
SplitPieces(ws, k, width) ==
    IF k > Len(ws) THEN [fault |-> "none", lines |-> <<>>]
    ELSE LET p == SplitPiece(ws[k], width)
         IN  IF p.fault # "none" THEN p
             ELSE LET r == SplitPieces(ws, k + 1, width)
                  IN  IF r.fault # "none" THEN r
                      ELSE [fault |-> "none", lines |-> p.lines \o r.lines]

\* ws2 of one content row (textModel.go:480-496).
WrapRow(line, width) ==
    SplitPieces(SplitLines(WordWrap(line, width - 2), 1, << <<>> >>), 1, width)

\* selectedLineStyle.Render marks the lines of the selected row.
DisplayLines(lines, sel) ==
    [k \in 1 .. Len(lines) |-> [text |-> lines[k], selected |-> sel]]

\* A row loop that enters only the first display line of a row in the
\* row-to-lines map: the loop of textModel.go:498-501 with its append replaced
\* by an assignment.
ParseRowFirstLineOnly(m, lineNum, acc, r) ==
    LET n == Len(acc.parsedContent)
        idx == [k \in 1 .. Len(r.lines) |-> n + k - 1]
    IN  [acc EXCEPT
           !.selectableParsedLinesMap =
               [p \in n .. n + Len(r.lines) - 1 |-> lineNum] @@ @,
           !.parsedSelectableLinesMap =
               [q \in {lineNum} |-> << n >>] @@ @,
           !.selectedParsedLines =
               IF lineNum = m.selectedLine THEN @ \o idx ELSE @,
           !.parsedContent =
               @ \o DisplayLines(r.lines, lineNum = m.selectedLine)]

\* One pass of the row loop (textModel.go:479-512): the row lineNum, wrapped
\* to r, added to the parse acc.
ParseRow(m, lineNum, acc, r) ==
    LET n == Len(acc.parsedContent)
        idx == [k \in 1 .. Len(r.lines) |-> n + k - 1]
    IN  [acc EXCEPT
           !.selectableParsedLinesMap =
               [p \in n .. n + Len(r.lines) - 1 |-> lineNum] @@ @,
           !.parsedSelectableLinesMap =
               [q \in {lineNum} |-> idx] @@ @,
           !.selectedParsedLines =
               IF lineNum = m.selectedLine THEN @ \o idx ELSE @,
           !.parsedContent =
               @ \o DisplayLines(r.lines, lineNum = m.selectedLine)]

RECURSIVE ParseRows(_, _, _)
ParseRows(m, lineNum, acc) ==
    IF lineNum >= Len(m.content) THEN acc
    ELSE CHOOSE res \in
           { IF r.fault # "none" THEN [acc EXCEPT !.fault = r.fault]
             ELSE CHOOSE next \in { ParseRows(m, lineNum + 1, acc1) :
                                      acc1 \in { ParseRow(m, lineNum, acc, r) } } : TRUE
             : r \in { WrapRow(m.content[lineNum + 1], m.width) } } : TRUE

parseContent(m) ==
    IF m.width = 0 \/ m.height = 0 THEN m
    ELSE ParseRows(m, 0,
           [m EXCEPT !.parsedContent = <<>>,
                     !.selectedParsedLines = <<>>,
                     !.selectableParsedLinesMap = EmptyMap,
                     !.parsedSelectableLinesMap = EmptyMap])

NewTextModel(content) ==
    [width |-> 0, height |-> 0, content |-> content,
     parsedContent |-> <<>>, selectedLine |-> 0, selectedParsedLines |-> <<>>,
     selectableParsedLinesMap |-> EmptyMap, parsedSelectableLinesMap |-> EmptyMap,
     scrolledTop |-> 0, fault |-> "none"]

TextModel_SetSize(m, width, height) ==
    parseContent([m EXCEPT !.width = width, !.height = height])

TextModel_SetContent(m, rows) ==
    parseContent([m EXCEPT !.selectedLine = 0, !.scrolledTop = 0, !.content = rows])

TextModel_AppendContent(m, rows) ==
    LET move == m.selectedLine = Len(m.content) - 1
        m1 == parseContent(
                [m EXCEPT !.selectedLine = IF move THEN Len(m.content) - 1 + Len(rows) ELSE @,
                          !.content = @ \o rows])
    IN  IF m1.fault # "none" THEN m1
        ELSE IF move /\ Len(m1.parsedContent) > m1.height - 2
        THEN [m1 EXCEPT !.scrolledTop = Len(m1.parsedContent) - m1.height + 2]
        ELSE m1

\* A SetSelectedLine that only brings the end of the selected row to the
\* bottom of the window: the method without its second test
\* (textModel.go:603-605).
TextScrollToSelectionEndAligned(m1) ==
    LET spl == m1.selectedParsedLines
        n == Len(spl)
        t1 == IF spl[n] > m1.scrolledTop + m1.height - n - 2
              THEN spl[n] - m1.height + 3
              ELSE m1.scrolledTop
        t3 == IF t1 < 0 THEN 0 ELSE t1
    IN  IF m1.fault # "none" THEN m1
        ELSE IF n = 0 THEN [m1 EXCEPT !.fault = "panic"]
        ELSE [m1 EXCEPT !.scrolledTop = t3]

\* SetSelectedLine after its parseContent (textModel.go:599-611), m1 the
\* parsed model.
TextScrollToSelection(m1) ==
    LET spl == m1.selectedParsedLines
        n == Len(spl)
        t1 == IF spl[n] > m1.scrolledTop + m1.height - n - 2
              THEN spl[n] - m1.height + 3
              ELSE m1.scrolledTop
        t2 == IF spl[1] < t1 THEN spl[1] ELSE t1
        t3 == IF t2 < 0 THEN 0 ELSE t2
    IN  IF m1.fault # "none" THEN m1
        ELSE IF n = 0 THEN [m1 EXCEPT !.fault = "panic"]
        ELSE [m1 EXCEPT !.scrolledTop = t3]

TextModel_SetSelectedLine(m, numLine) ==
    CHOOSE r \in { TextScrollToSelection(m1) :
                     m1 \in { parseContent([m EXCEPT !.selectedLine = numLine]) } } : TRUE

TextModel_SelectLastLine(m) ==
    IF m.selectedLine < Len(m.content) - 1
    THEN TextModel_SetSelectedLine(m, Len(m.content) - 1)
    ELSE m

\* A ViewScroll that drags the selection along with the view: the method as
\* it would be if it touched selectedLine.
TextModel_ViewScrollDragging(m, num) ==
    IF num > 0
    THEN IF m.scrolledTop + num < Len(m.parsedContent) - m.height + 3
         THEN [m EXCEPT !.scrolledTop = @ + num, !.selectedLine = @ + num]
         ELSE m
    ELSE IF num < 0
    THEN IF m.scrolledTop + num > 0
         THEN [m EXCEPT !.scrolledTop = @ + num, !.selectedLine = @ + num]
         ELSE m
    ELSE m

TextModel_ViewScroll(m, num) ==
    IF num > 0
    THEN IF m.scrolledTop + num < Len(m.parsedContent) - m.height + 3
         THEN [m EXCEPT !.scrolledTop = @ + num]
         ELSE m
    ELSE IF num < 0
    THEN IF m.scrolledTop + num > 0
         THEN [m EXCEPT !.scrolledTop = @ + num]
         ELSE m
    ELSE m

\* The body of PageScroll before its closing parseContent (textModel.go:543-581).
TextPageMove(m, num, moveSelected) ==
    LET len == Len(m.parsedContent)
        lastRow == Len(m.content) - 1
    IN
    IF num > 0
    THEN IF m.scrolledTop < len - m.height + 2
         THEN LET t == m.scrolledTop + (m.height - 2) * num
              IN  IF t > len - 2 \/ t > len - 1 - m.height - 2
                  THEN [m EXCEPT !.scrolledTop = len - m.height + 2,
                                 !.selectedLine = IF moveSelected THEN lastRow ELSE @]
                  ELSE IF moveSelected
                  THEN LET sel == MapGetInt(m.selectableParsedLinesMap, t + m.height - 3)
                           ls == MapGetSeq(m.parsedSelectableLinesMap, sel)
                       IN  IF Len(ls) = 0 THEN [m EXCEPT !.fault = "panic"]
                           ELSE [m EXCEPT !.selectedLine = sel,
                                          !.scrolledTop = ls[Len(ls)] - m.height + 3]
                  ELSE [m EXCEPT !.scrolledTop = t]
         ELSE m
    ELSE IF num < 0
    THEN IF m.scrolledTop > 0
         THEN LET t == m.scrolledTop - (m.height - 2) * (-num)
              IN  IF t < 0
                  THEN [m EXCEPT !.scrolledTop = 0,
                                 !.selectedLine = IF moveSelected THEN 0 ELSE @]
                  ELSE IF moveSelected
                  THEN LET sel == MapGetInt(m.selectableParsedLinesMap, t)
                           ls == MapGetSeq(m.parsedSelectableLinesMap, sel)
                       IN  IF Len(ls) = 0 THEN [m EXCEPT !.fault = "panic"]
                           ELSE [m EXCEPT !.selectedLine = sel, !.scrolledTop = ls[1]]
                  ELSE [m EXCEPT !.scrolledTop = t]
         ELSE m
    ELSE m

TextModel_PageScroll(m, num, moveSelected) ==
    LET m1 == TextPageMove(m, num, moveSelected)
    IN  IF m1.fault # "none" THEN m1 ELSE parseContent(m1)

\* DefaultKeys of package tm (textModel.go:18-35); unset bindings are "".
TextDefaultKeys ==
    [SelectLineDown1 |-> "j", SelectLineDown2 |-> "down", SelectLineDown3 |-> "",
     SelectLineUp1 |-> "k", SelectLineUp2 |-> "up", SelectLineUp3 |-> "",
     MoveViewDown1 |-> "J", MoveViewDown2 |-> "shift+down", MoveViewDown3 |-> "",
     MoveViewUp1 |-> "K", MoveViewUp2 |-> "shift+up", MoveViewUp3 |-> "",
     PageDown1 |-> "ctrl+d", PageDown2 |-> "ctrl+f", PageDown3 |-> "pgdown",
     PageUp1 |-> "ctrl+u", PageUp2 |-> "ctrl+b", PageUp3 |-> "pgup",
     Top1 |-> "g", Top2 |-> "", Top3 |-> "",
     Bottom1 |-> "G", Bottom2 |-> "", Bottom3 |-> ""]

\* The case of the key switch that a key string selects: the first case, in
\* source order, one of whose bindings equals it.
KeyCase(keys, k) ==
    IF k \in {keys.SelectLineDown1, keys.SelectLineDown2, keys.SelectLineDown3}
    THEN "SelectLineDown"
    ELSE IF k \in {keys.SelectLineUp1, keys.SelectLineUp2, keys.SelectLineUp3}
    THEN "SelectLineUp"
    ELSE IF k \in {keys.MoveViewDown1, keys.MoveViewDown2, keys.MoveViewDown3}
    THEN "MoveViewDown"
    ELSE IF k \in {keys.MoveViewUp1, keys.MoveViewUp2, keys.MoveViewUp3}
    THEN "MoveViewUp"
    ELSE IF k \in {keys.PageDown1, keys.PageDown2, keys.PageDown3}
    THEN "PageDown"
    ELSE IF k \in {keys.PageUp1, keys.PageUp2, keys.PageUp3}
    THEN "PageUp"
    ELSE IF k \in {keys.Top1, keys.Top2, keys.Top3}
    THEN "Top"
    ELSE IF k \in {keys.Bottom1, keys.Bottom2, keys.Bottom3}
    THEN "Bottom"
    ELSE "default"

\* Update on a tea.KeyMsg (textModel.go:261-300).
TextModel_UpdateKey(m, k) ==
    LET c == KeyCase(TextDefaultKeys, k)
    IN  IF Len(m.content) = 0 THEN m
        ELSE IF c = "SelectLineDown"
        THEN IF m.selectedLine < Len(m.content) - 1
             THEN TextModel_SetSelectedLine(m, m.selectedLine + 1) ELSE m
        ELSE IF c = "SelectLineUp"
        THEN IF m.selectedLine > 0
             THEN TextModel_SetSelectedLine(m, m.selectedLine - 1) ELSE m
        ELSE IF c = "MoveViewDown" THEN TextModel_ViewScroll(m, 1)
        ELSE IF c = "MoveViewUp" THEN TextModel_ViewScroll(m, -1)
        ELSE IF c = "PageDown" THEN TextModel_PageScroll(m, 1, TRUE)
        ELSE IF c = "PageUp" THEN TextModel_PageScroll(m, -1, TRUE)
        ELSE IF c = "Top"
        THEN IF m.selectedLine > 0 THEN TextModel_SetSelectedLine(m, 0) ELSE m
        ELSE IF c = "Bottom"
        THEN IF m.selectedLine < Len(m.content) - 1
             THEN TextModel_SetSelectedLine(m, Len(m.content) - 1) ELSE m
        ELSE m

\* Update on a tea.WindowSizeMsg (textModel.go:253-259).
TextModel_UpdateSize(m, width, height) ==
    [m EXCEPT !.width = IF @ > width THEN width ELSE @,
              !.height = IF @ > height THEN height ELSE @]

\* The message Update hands back (textModel.go:304): always the one it got.
TextModel_UpdateMsg(k) == "msg"

\* Go's integer division, which rounds towards zero; b is not 0.
GoDiv(a, b) ==
    LET q == (IF a < 0 THEN -a ELSE a) \div (IF b < 0 THEN -b ELSE b)
    IN  IF (a < 0) # (b < 0) THEN -q ELSE q

\* The right border that addBorders draws when the lines do not fit
\* (textModel.go:373-390): the rows of the scroll bar, counted from 0, that
\* hold the thumb, or the panic of a division by zero.
TextModel_Thumb(m) ==
    LET len == Len(m.parsedContent)
        d == GoDiv(len - 1, m.height - 2)
    IN  IF m.height - 2 = 0 \/ d = 0 THEN [fault |-> "panic", rows |-> {}]
        ELSE IF m.scrolledTop > len - m.height + 1
        THEN [fault |-> "none", rows |-> {m.height - 3}]
        ELSE [fault |-> "none",
              rows |-> {l \in 0 .. m.height - 3 : GoDiv(m.scrolledTop, d) = l}]

(***************************************************************************)
(* Filtering and sorting table: package table, TableModel (part_000).      *)
(* A row is a sequence of cells, a cell a text.                            *)
(***************************************************************************)
SortAscendig == 0
SortDescending == 1
SortUnsorted == 2

\* strings.ToLower on the letters of the model.
LowerChar(c) ==
    IF c = "A" THEN "a" ELSE IF c = "B" THEN "b" ELSE IF c = "X" THEN "x"
    ELSE IF c = "Y" THEN "y" ELSE c
ToLower(s) == [k \in 1 .. Len(s) |-> LowerChar(s[k])]

\* strings.Contains(s, sub).
Contains(s, sub) ==
    \E k \in 0 .. Len(s) - Len(sub) : SubSeq(s, k + 1, k + Len(sub)) = sub

\* collate.New(language.Czech).CompareString on the letters of the model: the
\* letters compare by alphabet position first, ignoring case; texts equal up
\* to case compare by case next, a lower-case letter before its upper case.
PrimaryWeight(c) ==
    LET l == LowerChar(c)
    IN  IF l = "a" THEN 1 ELSE IF l = "b" THEN 2 ELSE IF l = "x" THEN 3 ELSE 4
CaseWeight(c) == IF LowerChar(c) = c THEN 0 ELSE 1

RECURSIVE CompareWeights(_, _, _)
CompareWeights(a, b, k) ==
    IF k > Len(a) /\ k > Len(b) THEN 0
    ELSE IF k > Len(a) THEN -1
    ELSE IF k > Len(b) THEN 1
    ELSE IF a[k] < b[k] THEN -1
    ELSE IF a[k] > b[k] THEN 1
    ELSE CompareWeights(a, b, k + 1)

CompareString(a, b) ==
    LET p == CompareWeights([k \in 1 .. Len(a) |-> PrimaryWeight(a[k])],
                            [k \in 1 .. Len(b) |-> PrimaryWeight(b[k])], 1)
    IN  IF p # 0 THEN p
        ELSE CompareWeights([k \in 1 .. Len(a) |-> CaseWeight(a[k])],
                            [k \in 1 .. Len(b) |-> CaseWeight(b[k])], 1)

\* A comparator that orders SortDescending like SortAscendig: the case of
\* part_000:796-797 with its arguments in the order of part_000:794-795.
SortCmpOneWay(m, a, b) ==
    IF m.sortOrder = SortAscendig THEN CompareString(a[m.sortByCol + 1], b[m.sortByCol + 1])
    ELSE IF m.sortOrder = SortDescending
    THEN CompareString(a[m.sortByCol + 1], b[m.sortByCol + 1])
    ELSE 0

\* The comparator of sortFilteredContent (part_000:792-801).
SortCmp(m, a, b) ==
    IF m.sortOrder = SortAscendig THEN CompareString(a[m.sortByCol + 1], b[m.sortByCol + 1])
    ELSE IF m.sortOrder = SortDescending
    THEN CompareString(b[m.sortByCol + 1], a[m.sortByCol + 1])
    ELSE 0

\* insertionSortCmpFunc, which slices.SortFunc runs on ranges of at most 12
\* elements: element i sinks while it compares below its left neighbour.
RECURSIVE SinkElement(_, _, _)
SinkElement(m, data, j) ==
    IF j > 1 /\ SortCmp(m, data[j], data[j - 1]) < 0
    THEN SinkElement(m, [data EXCEPT ![j] = data[j - 1], ![j - 1] = data[j]], j - 1)
    ELSE data

RECURSIVE InsertionSort(_, _, _)
InsertionSort(m, data, i) ==
    IF i > Len(data) THEN data
    ELSE InsertionSort(m, SinkElement(m, data, i), i + 1)

\* choosePivotCmpFunc on 8 to 49 elements: the median of the elements at one,
\* two and three quarters of the range, and the number of exchanges that
\* finding it took.  Positions count from 1.
choosePivotCmpFunc(m, data) ==
    LET q == Len(data) \div 4
        less(x, y) == SortCmp(m, data[x], data[y]) < 0
        s1 == less(2 * q + 1, q + 1)
        a1 == IF s1 THEN 2 * q + 1 ELSE q + 1
        b1 == IF s1 THEN q + 1 ELSE 2 * q + 1
        s2 == less(3 * q + 1, b1)
        b2 == IF s2 THEN 3 * q + 1 ELSE b1
        s3 == less(b2, a1)
    IN  [pivot |-> IF s3 THEN a1 ELSE b2,
         swaps |-> Cardinality({k \in 1 .. 3 : <<s1, s2, s3>>[k]})]

\* The loop of partitionCmpFunc with the pivot at position 1: i moves up past
\* the elements below the pivot, j moves down past the others, the two
\* elements they stop at change places, until i and j have met; then the pivot
\* goes to position j.
RECURSIVE PartitionLoop(_, _, _, _)
PartitionLoop(m, data, i, j) ==
    LET up == {k \in i .. j : ~(SortCmp(m, data[k], data[1]) < 0)}
        i2 == IF up = {} THEN j + 1 ELSE CHOOSE k \in up : \A x \in up : k <= x
        down == {k \in i2 .. j : SortCmp(m, data[k], data[1]) < 0}
        j2 == IF down = {} THEN i2 - 1 ELSE CHOOSE k \in down : \A x \in down : k >= x
    IN  IF i2 > j2
        THEN [data |-> [data EXCEPT ![1] = data[j2], ![j2] = data[1]], mid |-> j2]
        ELSE PartitionLoop(m, [data EXCEPT ![i2] = data[j2], ![j2] = data[i2]],
                           i2 + 1, j2 - 1)

partitionCmpFunc(m, data, pivot) ==
    PartitionLoop(m, [data EXCEPT ![1] = data[pivot], ![pivot] = data[1]], 2, Len(data))

\* slices.SortFunc (part_000:792).  Up to 12 elements are insertion sorted.
\* On 13 elements pdqsortCmpFunc picks a pivot, returns if no exchange was
\* needed and the elements are in order already, and otherwise partitions
\* around the pivot and insertion sorts the two parts, each of at most 12
\* elements.
SortFunc(m, data) ==
    IF Len(data) <= 12 THEN InsertionSort(m, data, 2)
    ELSE LET cp == choosePivotCmpFunc(m, data)
             inOrder == \A k \in 2 .. Len(data) : ~(SortCmp(m, data[k], data[k - 1]) < 0)
         IN  IF cp.swaps = 0 /\ inOrder THEN data
             ELSE CHOOSE r \in
                    { InsertionSort(m, SubSeq(p.data, 1, p.mid - 1), 2)
                        \o << p.data[p.mid] >>
                        \o InsertionSort(m, SubSeq(p.data, p.mid + 1, Len(p.data)), 2)
                      : p \in { partitionCmpFunc(m, data, cp.pivot) } } : TRUE

\* Whether the comparator indexes a cell that no row has.
SortCmpPanics(m) ==
    /\ Len(m.filteredContent) >= 2
    /\ \E k \in 1 .. Len(m.filteredContent) :
         m.sortByCol < 0 \/ m.sortByCol >= Len(m.filteredContent[k])

\* The result of sortFilteredContent, or the panic of its comparator.
sortFilteredContent(m) ==
    IF m.sortOrder # SortUnsorted
    THEN IF SortCmpPanics(m) THEN [m EXCEPT !.fault = "panic"]
         ELSE [m EXCEPT !.sortedContent = SortFunc(m, m.filteredContent)]
    ELSE [m EXCEPT !.sortedContent = m.filteredContent]

RowMatches(m, line) ==
    \E k \in 1 .. Len(m.filterColums) :
        Contains(ToLower(line[m.filterColums[k] + 1]), ToLower(m.filter))

filterContent(m) ==
    IF m.filter = <<>> THEN m.content
    ELSE SelectSeq(m.content, LAMBDA line : RowMatches(m, line))

\* NewTableModel(WithHeaders(h1, h2), WithContent(content...), WithFilterColums(cols...)).
NewTableModel(content, cols) ==
    [width |-> 0, height |-> 0, headers |-> 2, content |-> content,
     selectedLine |-> 0, scrolledTop |-> 0,
     filter |-> <<>>,
     filterColums |-> IF Len(cols) = 0 THEN <<0, 1>> ELSE cols,
     filteredContent |-> content,
     sortByCol |-> 0, sortOrder |-> SortUnsorted, sortedContent |-> <<>>,
     fault |-> "none"]

\* A Sort that, asked for SortUnsorted, records the direction and leaves the
\* sorted rows as they are: the method without part_000:594-595.
TableModel_SortKeepingRows(m, col, dir) ==
    IF col > m.headers - 1 THEN m
    ELSE LET m1 == [m EXCEPT !.sortByCol = col, !.sortOrder = dir]
         IN  IF dir = SortUnsorted
             THEN m1
             ELSE sortFilteredContent(m1)

TableModel_Sort(m, col, dir) ==
    IF col > m.headers - 1 THEN m
    ELSE LET m1 == [m EXCEPT !.sortByCol = col, !.sortOrder = dir]
         IN  IF dir = SortUnsorted
             THEN [m1 EXCEPT !.sortedContent = m1.filteredContent]
             ELSE sortFilteredContent(m1)

TableModel_SetFilter(m, filter) ==
    LET m1 == [m EXCEPT !.filter = filter]
        m2 == sortFilteredContent([m1 EXCEPT !.filteredContent = filterContent(m1)])
    IN  IF m2.fault # "none" THEN m2
        ELSE [m2 EXCEPT !.scrolledTop = 0, !.selectedLine = 0]

TableModel_SetContent(m, rows) ==
    LET m1 == [m EXCEPT !.content = rows]
    IN  sortFilteredContent([m1 EXCEPT !.filteredContent = filterContent(m1)])

TableModel_AppendContent(m, rows) ==
    LET m1 == [m EXCEPT !.content = @ \o rows]
    IN  sortFilteredContent([m1 EXCEPT !.filteredContent = filterContent(m1)])

TableModel_SetSize(m, width, height) ==
    [m EXCEPT !.width = width, !.height = height]

TableModel_SetSelectedLine(m, line) ==
    IF line < Len(m.filteredContent) /\ line >= 0
    THEN IF line >= m.scrolledTop + (m.height - 4)
         THEN IF m.filter = <<>>
              THEN [m EXCEPT !.selectedLine = line, !.scrolledTop = line - (m.height - 4)]
              ELSE [m EXCEPT !.selectedLine = line, !.scrolledTop = line - (m.height - 5)]
         ELSE IF line < m.scrolledTop
         THEN [m EXCEPT !.selectedLine = line, !.scrolledTop = line]
         ELSE [m EXCEPT !.selectedLine = line]
    ELSE m

TableModel_SelectLastLine(m) ==
    TableModel_SetSelectedLine(m, Len(m.filteredContent) - 1)

TableModel_ViewScroll(m, num) ==
    IF num > 0
    THEN IF m.scrolledTop + num <= Len(m.filteredContent) - m.height + 3
         THEN [m EXCEPT !.scrolledTop = @ + num]
         ELSE m
    ELSE IF num < 0
    THEN IF m.scrolledTop + num >= 0
         THEN [m EXCEPT !.scrolledTop = @ + num]
         ELSE m
    ELSE m

TableModel_PageScroll(m, num, moveSelected) ==
    LET height == IF m.filter # <<>> THEN m.height - 1 ELSE m.height
        lenContent == Len(m.filteredContent)
        t1 == m.scrolledTop + (height - 3) * num
        s1 == IF ~moveSelected THEN m.selectedLine
              ELSE IF num > 0 THEN t1 + height - 4
              ELSE IF num < 0 THEN t1
              ELSE m.selectedLine
        t2 == IF t1 < 0 THEN 0 ELSE t1
        s2 == IF t1 < 0 /\ moveSelected THEN t2 ELSE s1
        t3 == IF t2 > lenContent - height - 3 THEN Max(lenContent - height + 3, 0) ELSE t2
        s3 == IF t2 > lenContent - height - 3 /\ moveSelected
              THEN IF t3 + height - 4 > lenContent THEN lenContent - 1 ELSE t3 + height - 4
              ELSE s2
    IN  [m EXCEPT !.scrolledTop = t3, !.selectedLine = s3]

\* The right border that addBorders draws when the rows do not fit
\* (part_000:527-546): the rows of the scroll bar, counted from 0, that hold
\* the thumb, or the panic of a division by zero.
TableModel_Thumb(m) ==
    LET contentLength == Len(m.sortedContent)
        height == m.height - 3
        d == GoDiv(contentLength - 1, height - 1)
    IN  IF height - 1 = 0 \/ d = 0 THEN [fault |-> "panic", rows |-> {}]
        ELSE IF m.scrolledTop > contentLength - height - 1
        THEN [fault |-> "none", rows |-> {height - 1}]
        ELSE [fault |-> "none",
              rows |-> {l \in 0 .. height - 1 : GoDiv(m.scrolledTop, d) = l}]

\* DefaultKeys of the table (part_000:39-58).
TableDefaultKeys ==
    [TextDefaultKeys EXCEPT !.Top2 = "home", !.Bottom2 = "end"]

\* Update on a tea.KeyMsg (part_000:313-346).
TableModel_UpdateKey(m, k) ==
    LET c == KeyCase(TableDefaultKeys, k)
    IN  IF c = "SelectLineDown" THEN TableModel_SetSelectedLine(m, m.selectedLine + 1)
        ELSE IF c = "SelectLineUp" THEN TableModel_SetSelectedLine(m, m.selectedLine - 1)
        ELSE IF c = "MoveViewDown" THEN TableModel_ViewScroll(m, 1)
        ELSE IF c = "MoveViewUp" THEN TableModel_ViewScroll(m, -1)
        ELSE IF c = "PageDown" THEN TableModel_PageScroll(m, 1, TRUE)
        ELSE IF c = "PageUp" THEN TableModel_PageScroll(m, -1, TRUE)
        ELSE IF c = "Top" THEN TableModel_SetSelectedLine(m, 0)
        ELSE IF c = "Bottom" THEN TableModel_SelectLastLine(m)
        ELSE m

\* The message Update hands back for a key: nil when a case took it.
TableModel_UpdateMsg(k) ==
    IF KeyCase(TableDefaultKeys, k) = "default" THEN "msg" ELSE "nil"

\* Update on a tea.WindowSizeMsg (part_000:305-311).
TableModel_UpdateSize(m, width, height) ==
    [m EXCEPT !.width = IF @ > width THEN width ELSE @,
              !.height = IF @ > height THEN height ELSE @]

(***************************************************************************)
(* Plain table: package table, TableModel without filter and sort          *)
(* (part_001).                                                             *)
(***************************************************************************)
NewPlainTable(content) ==
    [width |-> 0, height |-> 0, content |-> content,
     selectedLine |-> 0, scrolledTop |-> 0, fault |-> "none"]

PlainTable_SetContent(m, rows) == [m EXCEPT !.content = rows]

PlainTable_AppendContent(m, rows) == [m EXCEPT !.content = @ \o rows]

PlainTable_SetSize(m, width, height) ==
    [m EXCEPT !.width = width, !.height = height]

PlainTable_SetSelectedLine(m, line) ==
    IF line < Len(m.content) /\ line >= 0
    THEN IF line >= m.scrolledTop + (m.height - 5)
         THEN [m EXCEPT !.selectedLine = line, !.scrolledTop = line - (m.height - 5)]
         ELSE IF line < m.scrolledTop
         THEN [m EXCEPT !.selectedLine = line, !.scrolledTop = line]
         ELSE [m EXCEPT !.selectedLine = line]
    ELSE m

PlainTable_SelectLastLine(m) ==
    PlainTable_SetSelectedLine(m, Len(m.content) - 1)

PlainTable_ViewScroll(m, num) ==
    IF num > 0
    THEN IF m.scrolledTop + num <= Len(m.content) - m.height + 4
         THEN [m EXCEPT !.scrolledTop = @ + num]
         ELSE m
    ELSE IF num < 0
    THEN IF m.scrolledTop + num >= 0
         THEN [m EXCEPT !.scrolledTop = @ + num]
         ELSE m
    ELSE m

PlainTable_PageScroll(m, num, moveSelected) ==
    LET t1 == IF num > 0 THEN m.scrolledTop + (m.height - 5) * num + 1
              ELSE IF num < 0 THEN m.scrolledTop + (m.height - 5) * num - 1
              ELSE m.scrolledTop
        s1 == IF ~moveSelected THEN m.selectedLine
              ELSE IF num > 0 THEN t1 + m.height - 5
              ELSE IF num < 0 THEN t1
              ELSE m.selectedLine
        t2 == IF t1 <= 0 THEN 0 ELSE t1
        s2 == IF t1 <= 0 /\ moveSelected THEN t2 ELSE s1
        over == t2 > Len(m.content) - m.height - 5
        t3 == IF over THEN Len(m.content) - m.height + 4 ELSE t2
        s3 == IF over /\ moveSelected THEN t3 + m.height - 5 ELSE s2
    IN  [m EXCEPT !.scrolledTop = t3, !.selectedLine = s3]

\* Update on a tea.KeyMsg (part_001:265-305).
PlainTable_UpdateKey(m, k) ==
    LET c == KeyCase(TableDefaultKeys, k)
    IN  IF Len(m.content) = 0 THEN m
        ELSE IF c = "SelectLineDown" THEN PlainTable_SetSelectedLine(m, m.selectedLine + 1)
        ELSE IF c = "SelectLineUp" THEN PlainTable_SetSelectedLine(m, m.selectedLine - 1)
        ELSE IF c = "MoveViewDown" THEN PlainTable_ViewScroll(m, 1)
        ELSE IF c = "MoveViewUp" THEN PlainTable_ViewScroll(m, -1)
        ELSE IF c = "PageDown" THEN PlainTable_PageScroll(m, 1, TRUE)
        ELSE IF c = "PageUp" THEN PlainTable_PageScroll(m, -1, TRUE)
        ELSE IF c = "Top"
        THEN IF m.selectedLine > 0 THEN PlainTable_SetSelectedLine(m, 0) ELSE m
        ELSE IF c = "Bottom"
        THEN IF m.selectedLine < Len(m.content) - 1
             THEN PlainTable_SetSelectedLine(m, Len(m.content) - 1) ELSE m
        ELSE m

\* The message Update hands back for a key: the key itself when the content
\* is empty or no case took it, nil otherwise.
PlainTable_UpdateMsg(m, k) ==
    IF Len(m.content) = 0 \/ KeyCase(TableDefaultKeys, k) = "default" THEN "msg" ELSE "nil"

PlainTable_UpdateSize(m, width, height) ==
    [m EXCEPT !.width = IF @ > width THEN width ELSE @,
              !.height = IF @ > height THEN height ELSE @]

(***************************************************************************)
(* Checkbox: package checkbox, CheckboxModel.                              *)
(***************************************************************************)
\* DefaultKeys of package checkbox (checkbox.go:26-32): Enter and space.
CheckboxDefaultKeys == [Tick1 |-> "enter", Tick2 |-> " ", Tick3 |-> "", Tick4 |-> ""]

\* NewCheckboxModel(options...) (checkbox.go:62-74).  withKeys is empty or
\* holds the one Keys value given with WithKeys (checkbox.go:97-101); the
\* struct literal sets symbols and styles only, so keys starts as the zero
\* Keys and ticked as false.
NewCheckboxModel(withKeys) ==
    [ticked |-> FALSE,
     keys |-> IF withKeys = <<>>
              THEN [Tick1 |-> "", Tick2 |-> "", Tick3 |-> "", Tick4 |-> ""]
              ELSE withKeys[1]]

\* An Update that takes every key for a Tick key.
CheckboxModel_UpdateAnyKey(m, k) ==
    [m |-> [m EXCEPT !.ticked = ~@], msg |-> "nil"]

\* Update with a key message whose String() is k (checkbox.go:123-137): the
\* model and the message handed back.
CheckboxModel_Update(m, k) ==
    IF k \in {m.keys.Tick1, m.keys.Tick2, m.keys.Tick3, m.keys.Tick4}
    THEN [m |-> [m EXCEPT !.ticked = ~@], msg |-> "nil"]
    ELSE [m |-> m, msg |-> "msg"]

\* ToggleTick (checkbox.go:165-169).
CheckboxModel_ToggleTick(m) == [m EXCEPT !.ticked = ~@]

(***************************************************************************)
(* Tabs: package tabs, TabsModel.  A tab list is a sequence of names.      *)
(***************************************************************************)
\* DefaultKeys of package tabs (tabs.go:11-19).
TabsDefaultKeys ==
    [Next1 |-> "tab", Next2 |-> "ctrl+n", Next3 |-> "",
     Prev1 |-> "shift+tab", Prev2 |-> "ctrl+p", Prev3 |-> ""]

\* NewTabsModel(WithTabs(tabs...)) (tabs.go:53-74, 85-89).
NewTabsModel(names) == [tabs |-> names, selectedTab |-> 0, keys |-> TabsDefaultKeys]

\* Update with a key message whose String() is k (tabs.go:151-182): the
\* model and the message handed back.
TabsModel_Update(m, k) ==
    IF k \in {m.keys.Next1, m.keys.Next2, m.keys.Next3}
    THEN [m |-> [m EXCEPT !.selectedTab =
                    IF @ < Len(m.tabs) - 1 THEN @ + 1 ELSE 0],
          msg |-> "msg"]
    ELSE IF k \in {m.keys.Prev1, m.keys.Prev2, m.keys.Prev3}
    THEN [m |-> [m EXCEPT !.selectedTab =
                    IF @ > 0 THEN @ - 1 ELSE Len(m.tabs) - 1],
          msg |-> "msg"]
    ELSE [m |-> m, msg |-> "msg"]

\* SetTabs (tabs.go:264-268).
TabsModel_SetTabs(m, names) == [m EXCEPT !.tabs = names]

(***************************************************************************)
(* Quit dialog: package window, QuitModel.                                 *)
(***************************************************************************)
\* DefaultKeys of the quit dialog (window.go:217-231).
QuitDefaultKeys ==
    [Show1 |-> "q", Show2 |-> "esc", Show3 |-> "",
     Yes1 |-> "a", Yes2 |-> "", Yes3 |-> "",
     No1 |-> "n", No2 |-> "esc", No3 |-> "",
     Next1 |-> "left", Next2 |-> "right", Next3 |-> "h", Next4 |-> "l",
     Next5 |-> "tab",
     SelectButton1 |-> "enter", SelectButton2 |-> " ", SelectButton3 |-> ""]

\* NewQuitModel() (window.go:293-327).
NewQuitModel ==
    [displayed |-> FALSE, selectedButton |-> 0, keys |-> QuitDefaultKeys]

\* An Update whose SelectButton keys quit whichever button is selected.
QuitModel_UpdateSelectQuits(m, k) ==
    IF ~m.displayed
    THEN IF k = m.keys.Show1 \/ k = m.keys.Show2 \/ k = m.keys.Show3
         THEN [m |-> [m EXCEPT !.displayed = TRUE], cmd |-> "nil", msg |-> "nil"]
         ELSE [m |-> m, cmd |-> "nil", msg |-> "msg"]
    ELSE IF k \in {m.keys.Yes1, m.keys.Yes2, m.keys.Yes3}
    THEN [m |-> m, cmd |-> "Quit", msg |-> "nil"]
    ELSE IF k \in {m.keys.No1, m.keys.No2, m.keys.No3}
    THEN [m |-> [m EXCEPT !.displayed = FALSE], cmd |-> "nil", msg |-> "nil"]
    ELSE IF k \in {m.keys.Next1, m.keys.Next2, m.keys.Next3, m.keys.Next4,
                   m.keys.Next5}
    THEN [m |-> [m EXCEPT !.selectedButton = IF @ = 0 THEN 1 ELSE 0],
          cmd |-> "nil", msg |-> "msg"]
    ELSE IF k \in {m.keys.SelectButton1, m.keys.SelectButton2,
                   m.keys.SelectButton3}
    THEN [m |-> m, cmd |-> "Quit", msg |-> "nil"]
    ELSE [m |-> m, cmd |-> "nil", msg |-> "nil"]

\* Update with a key message whose String() is k (window.go:424-472): the
\* model, the command and the message handed back.
QuitModel_Update(m, k) ==
    IF ~m.displayed
    THEN IF k = m.keys.Show1 \/ k = m.keys.Show2 \/ k = m.keys.Show3
         THEN [m |-> [m EXCEPT !.displayed = TRUE], cmd |-> "nil", msg |-> "nil"]
         ELSE [m |-> m, cmd |-> "nil", msg |-> "msg"]
    ELSE IF k \in {m.keys.Yes1, m.keys.Yes2, m.keys.Yes3}
    THEN [m |-> m, cmd |-> "Quit", msg |-> "nil"]
    ELSE IF k \in {m.keys.No1, m.keys.No2, m.keys.No3}
    THEN [m |-> [m EXCEPT !.displayed = FALSE], cmd |-> "nil", msg |-> "nil"]
    ELSE IF k \in {m.keys.Next1, m.keys.Next2, m.keys.Next3, m.keys.Next4,
                   m.keys.Next5}
    THEN [m |-> [m EXCEPT !.selectedButton = IF @ = 0 THEN 1 ELSE 0],
          cmd |-> "nil", msg |-> "msg"]
    ELSE IF k \in {m.keys.SelectButton1, m.keys.SelectButton2,
                   m.keys.SelectButton3}
    THEN IF m.selectedButton = 0
         THEN [m |-> m, cmd |-> "Quit", msg |-> "nil"]
         ELSE [m |-> [m EXCEPT !.displayed = FALSE], cmd |-> "nil", msg |-> "msg"]
    ELSE [m |-> m, cmd |-> "nil", msg |-> "nil"]

\* Display (window.go:533-537).
QuitModel_Display(m) == [m EXCEPT !.displayed = TRUE]

(***************************************************************************)
(* The host program.  It owns one widget (widget names which), calls its   *)
(* methods and stores the model each call returns.  last is the method     *)
(* called last and the message it handed back (Update only): "msg" for the *)
(* message it was given, "nil" for none.  For the quit dialog last also    *)
(* holds the command Update returned: "Quit" for tea.Quit, "nil" for none. *)
(***************************************************************************)
Call(op, ret) == [op |-> op, ret |-> ret]

\* The model the host holds after a call that produced r.  A panic or a call
\* that never returns ends the program: no widget value is left to observe, and
\* the state keeps only the fault.
Stored(r) == IF r.fault # "none" THEN [NewTextModel(<<>>) EXCEPT !.fault = r.fault] ELSE r
StoredTable(r) ==
    IF r.fault # "none" THEN [NewTableModel(<<>>, <<>>) EXCEPT !.fault = r.fault] ELSE r

\* No row wraps to more than 4 display lines; the model follows scrolledTop
\* within this distance of the content.
ScrollCap == 4 * MaxRows
InScrollCap(r) == r.fault # "none" \/ r.scrolledTop \in -ScrollCap .. ScrollCap

TextContents == SeqsUpTo(RowTexts, MaxRows)
TextAppends == SeqsUpTo(RowTexts, 2)
\* Key strings the host may deliver: one binding of each action of DefaultKeys
\* and a key that has no binding.
KeyInputs == {"j", "k", "J", "K", "ctrl+d", "ctrl+u", "g", "G", "x"}
Deltas == -MaxDelta .. MaxDelta
Pages == {-1, 1}
Lines == -1 .. MaxRows

\* Table rows the host may pass: two rows whose first cells differ in letter
\* and case and whose second cells are equal.
TableRows ==
    { << <<"a">>, <<"x">> >>,
      << <<"B">>, <<"x">> >> }
TableContents == SeqsUpTo(TableRows, MaxRows)
TableAppends == SeqsUpTo(TableRows, 2)
\* Filter texts: none, and one that matches the first cell of one row once
\* both are folded to lower case.
Filters == { <<>>, <<"B">> }
\* Sort columns: one below the header range, the first, one above the range.
SortCols == {-1, 0, 2}
SortOrders == {SortAscendig, SortDescending, SortUnsorted}
\* <<width, height>>: two and three table rows visible without a filter.
TableSizes == { <<20, 5>>, <<20, 6>> }
\* <<width, height>>: two and three table rows visible in the plain table.
PlainSizes == { <<20, 6>>, <<20, 7>> }

TextLive == widget = "text" /\ text.fault = "none"

TextSetSizeBy(size) ==
    /\ TextLive
    /\ text' = Stored(TextModel_SetSize(text, size[1], size[2]))
    /\ InScrollCap(text')
    /\ last' = Call("SetSize", "")
    /\ UNCHANGED <<widget, table, plain, checkbox, tabs, quit, arrays, models>>

TextSetContentBy(rows) ==
    /\ TextLive
    /\ text' = Stored(TextModel_SetContent(text, rows))
    /\ InScrollCap(text')
    /\ last' = Call("SetContent", "")
    /\ UNCHANGED <<widget, table, plain, checkbox, tabs, quit, arrays, models>>

TextAppendContentBy(rows) ==
    /\ TextLive
    /\ Len(text.content) + Len(rows) <= MaxRows
    /\ text' = Stored(TextModel_AppendContent(text, rows))
    /\ InScrollCap(text')
    /\ last' = Call("AppendContent", "")
    /\ UNCHANGED <<widget, table, plain, checkbox, tabs, quit, arrays, models>>

TextSetSelectedLineBy(numLine) ==
    /\ TextLive
    /\ text' = Stored(TextModel_SetSelectedLine(text, numLine))
    /\ InScrollCap(text')
    /\ last' = Call("SetSelectedLine", "")
    /\ UNCHANGED <<widget, table, plain, checkbox, tabs, quit, arrays, models>>

TextSelectLastLine ==
    /\ TextLive
    /\ text' = Stored(TextModel_SelectLastLine(text))
    /\ InScrollCap(text')
    /\ last' = Call("SelectLastLine", "")
    /\ UNCHANGED <<widget, table, plain, checkbox, tabs, quit, arrays, models>>

TextViewScrollBy(num) ==
    /\ TextLive
    /\ text' = Stored(TextModel_ViewScroll(text, num))
    /\ InScrollCap(text')
    /\ last' = Call("ViewScroll", "")
    /\ UNCHANGED <<widget, table, plain, checkbox, tabs, quit, arrays, models>>

TextPageScrollBy(num, moveSelected) ==
    /\ TextLive
    /\ text' = Stored(TextModel_PageScroll(text, num, moveSelected))
    /\ InScrollCap(text')
    /\ last' = Call("PageScroll", "")
    /\ UNCHANGED <<widget, table, plain, checkbox, tabs, quit, arrays, models>>

TextUpdateKeyBy(k) ==
    /\ TextLive
    /\ text' = Stored(TextModel_UpdateKey(text, k))
    /\ InScrollCap(text')
    /\ last' = Call("UpdateKey", TextModel_UpdateMsg(k))
    /\ UNCHANGED <<widget, table, plain, checkbox, tabs, quit, arrays, models>>

TextUpdateSizeBy(size) ==
    /\ TextLive
    /\ text' = TextModel_UpdateSize(text, size[1], size[2])
    /\ last' = Call("UpdateSize", "msg")
    /\ UNCHANGED <<widget, table, plain, checkbox, tabs, quit, arrays, models>>

TextNext ==
    \/ \E size \in Sizes : TextSetSizeBy(size)
    \/ \E rows \in TextContents : TextSetContentBy(rows)
    \/ \E rows \in TextAppends : TextAppendContentBy(rows)
    \/ \E numLine \in Lines : TextSetSelectedLineBy(numLine)
    \/ TextSelectLastLine
    \/ \E num \in Deltas : TextViewScrollBy(num)
    \/ \E num \in Pages, moveSelected \in BOOLEAN : TextPageScrollBy(num, moveSelected)
    \/ \E k \in KeyInputs : TextUpdateKeyBy(k)
    \/ \E size \in Sizes : TextUpdateSizeBy(size)

\* NewTextModel(WithContent(rows...)); the other widgets are not in use.
TextInit ==
    /\ widget = "text"
    /\ \E rows \in TextContents : text = NewTextModel(rows)
    /\ table = NewTableModel(<<>>, <<>>)
    /\ plain = NewPlainTable(<<>>)
    /\ checkbox = NewCheckboxModel(<<>>)
    /\ tabs = NewTabsModel(<<>>)
    /\ quit = NewQuitModel
    /\ arrays = <<>>
    /\ models = <<>>
    /\ last = Call("New", "")

SpecText == TextInit /\ [][TextNext]_vars

\* The scroll-up key and the scroll-down key (textModel.go:278-282).
ScrollUpKey ==
    \E k \in KeyInputs :
        KeyCase(TextDefaultKeys, k) = "MoveViewUp" /\ TextUpdateKeyBy(k)
ScrollDownKey ==
    \E k \in KeyInputs :
        KeyCase(TextDefaultKeys, k) = "MoveViewDown" /\ TextUpdateKeyBy(k)

\* The text list with a user who, holding a scroll key down, keeps pressing
\* it for as long as a press changes anything.
SpecScroll ==
    TextInit /\ [][TextNext]_vars /\ WF_vars(ScrollUpKey) /\ WF_vars(ScrollDownKey)

(***************************************************************************)
(* Text lists derived from one another.  The host keeps several model      *)
(* values, each the result of a method called on another.  The content     *)
(* field of a Go model is a slice: an array, a length, and the array's     *)
(* size as capacity.  arrays are the arrays allocated so far, a row not    *)
(* yet written being the empty string; a model of models holds in content  *)
(* the number of its array (0 for the nil slice) and its length.  The      *)
(* lists are left unsized, as constructed, so parseContent returns at once *)
(* (textModel.go:469-471) and allocates nothing.                           *)
(***************************************************************************)
MaxModels == 3
MaxArrays == 4
MaxLen == 4

\* m.GetContent() (textModel.go:440-442): the rows the slice shows.
GetContent(arrs, m) ==
    IF m.content.arr = 0 THEN <<>>
    ELSE SubSeq(arrs[m.content.arr], 1, m.content.len)

\* The capacity append gives the new array when cap rows are too few for
\* needed (append at textModel.go:426): the Go runtime doubles a small
\* capacity, and takes needed if that is more.
GrowCap(cap, needed) == IF needed > 2 * cap THEN needed ELSE 2 * cap

\* append(m.content, rows...) (textModel.go:426): the arrays and the slice
\* after it.  With room in the array the rows are written into it, behind
\* the slice's length; without, a larger array gets the old and new rows.
GoAppend(arrs, slice, rows) ==
    LET cap == IF slice.arr = 0 THEN 0 ELSE Len(arrs[slice.arr])
        len == slice.len + Len(rows)
        old == IF slice.arr = 0 THEN <<>> ELSE SubSeq(arrs[slice.arr], 1, slice.len)
    IN  IF len <= cap
        THEN [arrays |-> [arrs EXCEPT ![slice.arr] =
                            [i \in 1 .. cap |->
                                IF i \in slice.len + 1 .. len
                                THEN rows[i - slice.len] ELSE @[i]]],
              slice |-> [arr |-> slice.arr, len |-> len]]
        ELSE [arrays |-> Append(arrs,
                            [i \in 1 .. GrowCap(cap, len) |->
                                IF i <= slice.len THEN old[i]
                                ELSE IF i <= len THEN rows[i - slice.len]
                                ELSE <<>>]),
              slice |-> [arr |-> Len(arrs) + 1, len |-> len]]

\* The slice of the arguments of a variadic call (WithContent(rows...),
\* textModel.go:142-146): nil without arguments, else a new array that the
\* rows fill.
ArgSlice(arrs, rows) ==
    IF rows = <<>>
    THEN [arrays |-> arrs, slice |-> [arr |-> 0, len |-> 0]]
    ELSE [arrays |-> Append(arrs, rows), slice |-> [arr |-> Len(arrs) + 1, len |-> Len(rows)]]

\* m.AppendContent(rows...) (textModel.go:419-437) on a model of models:
\* selection and scroll as TextModel_AppendContent sets them, the content
\* as append leaves it.
SharedAppendContent(arrs, m, rows) ==
    LET r == TextModel_AppendContent([m EXCEPT !.content = GetContent(arrs, m)], rows)
        a == GoAppend(arrs, m.content, rows)
    IN  [arrays |-> a.arrays, m |-> [r EXCEPT !.content = a.slice]]

\* Rows the host appends one at a time.
SharedRows == { << <<"x">> >>, << <<"y">> >> }

\* models[j] = models[i].AppendContent(rows...): the host stores the result
\* in place of a value it holds or as one more value.
SharedAppendContentBy(i, j, rows) ==
    /\ widget = "texts"
    /\ i \in 1 .. Len(models)
    /\ j \in 1 .. Len(models) + 1
    /\ j <= MaxModels
    /\ models[i].content.len + Len(rows) <= MaxLen
    /\ LET r == SharedAppendContent(arrays, models[i], rows)
       IN  /\ Len(r.arrays) <= MaxArrays
           /\ arrays' = r.arrays
           /\ models' = IF j > Len(models) THEN Append(models, r.m)
                        ELSE [models EXCEPT ![j] = r.m]
    /\ last' = Call("AppendContent", "")
    /\ UNCHANGED <<widget, text, table, plain, checkbox, tabs, quit>>

SharedNext ==
    \E i \in 1 .. MaxModels, j \in 1 .. MaxModels, rows \in SharedRows :
        SharedAppendContentBy(i, j, rows)

\* NewTextModel(WithContent(rows...)) with no to two rows; the other
\* widgets are not in use.
SharedInit ==
    /\ widget = "texts"
    /\ text = NewTextModel(<<>>)
    /\ table = NewTableModel(<<>>, <<>>)
    /\ plain = NewPlainTable(<<>>)
    /\ checkbox = NewCheckboxModel(<<>>)
    /\ tabs = NewTabsModel(<<>>)
    /\ quit = NewQuitModel
    /\ \E rows \in SeqsUpTo({ <<"a">>, <<"b">> }, 2) :
          /\ arrays = ArgSlice(<<>>, rows).arrays
          /\ models = << [NewTextModel(rows) EXCEPT
                            !.content = ArgSlice(<<>>, rows).slice] >>
    /\ last = Call("New", "")

SpecShared == SharedInit /\ [][SharedNext]_vars

(***************************************************************************)
(* The text list under resizing: rows that are one long token, and every   *)
(* width and height a host may pass, those at or below zero included.      *)
(***************************************************************************)
MaxToken == 5
MaxWidth == 4

Letters == <<"a", "b", "c", "d", "e", "f", "g">>
\* A row of n letters without a space.
Token(n) == [k \in 1 .. n |-> Letters[((k - 1) % Len(Letters)) + 1]]

WrapRows == { Token(n) : n \in {0, 3, MaxToken} } \cup RowTexts
WrapContents == SeqsUpTo(WrapRows, 1)
WrapSizes == (-1 .. MaxWidth) \X {-1, 0, 3}

WrapNext ==
    \/ \E size \in WrapSizes : TextSetSizeBy(size)
    \/ \E rows \in WrapContents : TextSetContentBy(rows)
    \/ \E rows \in { r \in WrapContents : Len(text.content) + Len(r) <= 2 } :
          TextAppendContentBy(rows)
    \/ \E size \in WrapSizes : TextUpdateSizeBy(size)

WrapInit ==
    /\ widget = "text"
    /\ \E rows \in WrapContents : text = NewTextModel(rows)
    /\ table = NewTableModel(<<>>, <<>>)
    /\ plain = NewPlainTable(<<>>)
    /\ checkbox = NewCheckboxModel(<<>>)
    /\ tabs = NewTabsModel(<<>>)
    /\ quit = NewQuitModel
    /\ arrays = <<>>
    /\ models = <<>>
    /\ last = Call("New", "")

SpecWrap == WrapInit /\ [][WrapNext]_vars

TableLive == widget = "table" /\ table.fault = "none"

TableSetSizeBy(size) ==
    /\ TableLive
    /\ table' = TableModel_SetSize(table, size[1], size[2])
    /\ last' = Call("SetSize", "")
    /\ UNCHANGED <<widget, text, plain, checkbox, tabs, quit, arrays, models>>

TableSetContentBy(rows) ==
    /\ TableLive
    /\ table' = StoredTable(TableModel_SetContent(table, rows))
    /\ last' = Call("SetContent", "")
    /\ UNCHANGED <<widget, text, plain, checkbox, tabs, quit, arrays, models>>

TableAppendContentBy(rows) ==
    /\ TableLive
    /\ Len(table.content) + Len(rows) <= MaxRows
    /\ table' = StoredTable(TableModel_AppendContent(table, rows))
    /\ last' = Call("AppendContent", "")
    /\ UNCHANGED <<widget, text, plain, checkbox, tabs, quit, arrays, models>>

TableSetFilterBy(filter) ==
    /\ TableLive
    /\ table' = StoredTable(TableModel_SetFilter(table, filter))
    /\ last' = Call("SetFilter", "")
    /\ UNCHANGED <<widget, text, plain, checkbox, tabs, quit, arrays, models>>

TableSortBy(col, dir) ==
    /\ TableLive
    /\ table' = StoredTable(TableModel_Sort(table, col, dir))
    /\ last' = Call("Sort", "")
    /\ UNCHANGED <<widget, text, plain, checkbox, tabs, quit, arrays, models>>

TableSetSelectedLineBy(line) ==
    /\ TableLive
    /\ table' = TableModel_SetSelectedLine(table, line)
    /\ last' = Call("SetSelectedLine", "")
    /\ UNCHANGED <<widget, text, plain, checkbox, tabs, quit, arrays, models>>

TableSelectLastLine ==
    /\ TableLive
    /\ table' = TableModel_SelectLastLine(table)
    /\ last' = Call("SelectLastLine", "")
    /\ UNCHANGED <<widget, text, plain, checkbox, tabs, quit, arrays, models>>

TableViewScrollBy(num) ==
    /\ TableLive
    /\ table' = TableModel_ViewScroll(table, num)
    /\ last' = Call("ViewScroll", "")
    /\ UNCHANGED <<widget, text, plain, checkbox, tabs, quit, arrays, models>>

TablePageScrollBy(num, moveSelected) ==
    /\ TableLive
    /\ table' = TableModel_PageScroll(table, num, moveSelected)
    /\ last' = Call("PageScroll", "")
    /\ UNCHANGED <<widget, text, plain, checkbox, tabs, quit, arrays, models>>

TableUpdateKeyBy(k) ==
    /\ TableLive
    /\ table' = TableModel_UpdateKey(table, k)
    /\ last' = Call("UpdateKey", TableModel_UpdateMsg(k))
    /\ UNCHANGED <<widget, text, plain, checkbox, tabs, quit, arrays, models>>

TableUpdateSizeBy(size) ==
    /\ TableLive
    /\ table' = TableModel_UpdateSize(table, size[1], size[2])
    /\ last' = Call("UpdateSize", "msg")
    /\ UNCHANGED <<widget, text, plain, checkbox, tabs, quit, arrays, models>>

TableNext ==
    \/ \E size \in TableSizes : TableSetSizeBy(size)
    \/ \E rows \in TableContents : TableSetContentBy(rows)
    \/ \E rows \in TableAppends : TableAppendContentBy(rows)
    \/ \E filter \in Filters : TableSetFilterBy(filter)
    \/ \E col \in SortCols, dir \in SortOrders : TableSortBy(col, dir)
    \/ \E line \in Lines : TableSetSelectedLineBy(line)
    \/ TableSelectLastLine
    \/ \E num \in Deltas : TableViewScrollBy(num)
    \/ \E num \in Pages, moveSelected \in BOOLEAN : TablePageScrollBy(num, moveSelected)
    \/ \E k \in KeyInputs : TableUpdateKeyBy(k)
    \/ \E size \in TableSizes : TableUpdateSizeBy(size)

\* NewTableModel(WithHeaders(h1, h2), WithContent(rows...)).
TableInit ==
    /\ widget = "table"
    /\ text = NewTextModel(<<>>)
    /\ \E rows \in TableContents : table = NewTableModel(rows, <<>>)
    /\ plain = NewPlainTable(<<>>)
    /\ checkbox = NewCheckboxModel(<<>>)
    /\ tabs = NewTabsModel(<<>>)
    /\ quit = NewQuitModel
    /\ arrays = <<>>
    /\ models = <<>>
    /\ last = Call("New", "")

SpecTable == TableInit /\ [][TableNext]_vars

(***************************************************************************)
(* The table under filtering and sorting: rows whose first cells are equal *)
(* in two rows, differ only by length in a third and only by letter in a   *)
(* fourth, filter texts that match in either column, sort columns inside   *)
(* and outside the header range, the filter columns left at their default  *)
(* (all) or set to the first column, and windows of one and three rows.    *)
(***************************************************************************)
SortRows ==
    { << <<"b">>, <<"x">> >>,
      << <<"a">>, <<"y">> >>,
      << <<"a">>, <<"x">> >>,
      << <<"a", "B">>, <<"y">> >> }
\* Thirteen rows, one more than slices.SortFunc insertion sorts: two rows with
\* the first cell "b", then eleven with the first cell "a".
LongContent ==
    << << <<"b">>, <<"x">> >>, << <<"b">>, <<"y">> >> >>
        \o [k \in 1 .. 11 |-> << <<"a">>, <<"x">> >>]
SortContents == SeqsUpTo(SortRows, MaxRows) \cup {LongContent}
SortFilters == { <<>>, <<"B">>, <<"x">> }

SortNext ==
    \/ \E rows \in SortContents : TableSetContentBy(rows)
    \/ \E rows \in SeqsUpTo(SortRows, MaxRows) : TableAppendContentBy(rows)
    \/ \E filter \in SortFilters : TableSetFilterBy(filter)
    \/ \E col \in -1 .. 2, dir \in SortOrders : TableSortBy(col, dir)
    \/ \E size \in { <<20, 4>>, <<20, 6>> } : TableSetSizeBy(size)

\* NewTableModel(WithHeaders(h1, h2), WithContent(rows...)), with or without
\* WithFilterColums(0).
SortInit ==
    /\ widget = "table"
    /\ text = NewTextModel(<<>>)
    /\ \E rows \in SortContents, cols \in { <<>>, <<0>> } :
          table = NewTableModel(rows, cols)
    /\ plain = NewPlainTable(<<>>)
    /\ checkbox = NewCheckboxModel(<<>>)
    /\ tabs = NewTabsModel(<<>>)
    /\ quit = NewQuitModel
    /\ arrays = <<>>
    /\ models = <<>>
    /\ last = Call("New", "")

SpecSort == SortInit /\ [][SortNext]_vars

PlainLive == widget = "plain" /\ plain.fault = "none"

PlainSetSizeBy(size) ==
    /\ PlainLive
    /\ plain' = PlainTable_SetSize(plain, size[1], size[2])
    /\ last' = Call("SetSize", "")
    /\ UNCHANGED <<widget, text, table, checkbox, tabs, quit, arrays, models>>

PlainSetContentBy(rows) ==
    /\ PlainLive
    /\ plain' = PlainTable_SetContent(plain, rows)
    /\ last' = Call("SetContent", "")
    /\ UNCHANGED <<widget, text, table, checkbox, tabs, quit, arrays, models>>

PlainAppendContentBy(rows) ==
    /\ PlainLive
    /\ Len(plain.content) + Len(rows) <= MaxRows
    /\ plain' = PlainTable_AppendContent(plain, rows)
    /\ last' = Call("AppendContent", "")
    /\ UNCHANGED <<widget, text, table, checkbox, tabs, quit, arrays, models>>

PlainSetSelectedLineBy(line) ==
    /\ PlainLive
    /\ plain' = PlainTable_SetSelectedLine(plain, line)
    /\ last' = Call("SetSelectedLine", "")
    /\ UNCHANGED <<widget, text, table, checkbox, tabs, quit, arrays, models>>

PlainSelectLastLine ==
    /\ PlainLive
    /\ plain' = PlainTable_SelectLastLine(plain)
    /\ last' = Call("SelectLastLine", "")
    /\ UNCHANGED <<widget, text, table, checkbox, tabs, quit, arrays, models>>

PlainViewScrollBy(num) ==
    /\ PlainLive
    /\ plain' = PlainTable_ViewScroll(plain, num)
    /\ last' = Call("ViewScroll", "")
    /\ UNCHANGED <<widget, text, table, checkbox, tabs, quit, arrays, models>>

PlainPageScrollBy(num, moveSelected) ==
    /\ PlainLive
    /\ plain' = PlainTable_PageScroll(plain, num, moveSelected)
    /\ last' = Call("PageScroll", "")
    /\ UNCHANGED <<widget, text, table, checkbox, tabs, quit, arrays, models>>

PlainUpdateKeyBy(k) ==
    /\ PlainLive
    /\ plain' = PlainTable_UpdateKey(plain, k)
    /\ last' = Call("UpdateKey", PlainTable_UpdateMsg(plain, k))
    /\ UNCHANGED <<widget, text, table, checkbox, tabs, quit, arrays, models>>

PlainUpdateSizeBy(size) ==
    /\ PlainLive
    /\ plain' = PlainTable_UpdateSize(plain, size[1], size[2])
    /\ last' = Call("UpdateSize", "msg")
    /\ UNCHANGED <<widget, text, table, checkbox, tabs, quit, arrays, models>>

PlainNext ==
    \/ \E size \in PlainSizes : PlainSetSizeBy(size)
    \/ \E rows \in TableContents : PlainSetContentBy(rows)
    \/ \E rows \in TableAppends : PlainAppendContentBy(rows)
    \/ \E line \in Lines : PlainSetSelectedLineBy(line)
    \/ PlainSelectLastLine
    \/ \E num \in Deltas : PlainViewScrollBy(num)
    \/ \E num \in Pages, moveSelected \in BOOLEAN : PlainPageScrollBy(num, moveSelected)
    \/ \E k \in KeyInputs : PlainUpdateKeyBy(k)
    \/ \E size \in PlainSizes : PlainUpdateSizeBy(size)

\* NewTableModel(WithHeaders(h1, h2), WithContent(rows...)) of the plain table.
PlainInit ==
    /\ widget = "plain"
    /\ text = NewTextModel(<<>>)
    /\ table = NewTableModel(<<>>, <<>>)
    /\ \E rows \in TableContents : plain = NewPlainTable(rows)
    /\ checkbox = NewCheckboxModel(<<>>)
    /\ tabs = NewTabsModel(<<>>)
    /\ quit = NewQuitModel
    /\ arrays = <<>>
    /\ models = <<>>
    /\ last = Call("New", "")

SpecPlain == PlainInit /\ [][PlainNext]_vars

(***************************************************************************)
(* The host of a checkbox, of tabs or of a quit dialog.                    *)
(***************************************************************************)
\* Key strings the host may deliver to these widgets: the bindings of their
\* DefaultKeys and one key, "x", that none of them binds.
DialogKeys ==
    {"enter", " ", "tab", "shift+tab", "ctrl+n", "ctrl+p", "q", "esc", "a",
     "n", "left", "right", "h", "l", "x"}

\* Lists of one to three tabs.
TabLists == UNION { [1 .. n -> {"a", "b"}] : n \in 1 .. 3 }

CheckboxUpdateBy(k) ==
    /\ widget = "checkbox"
    /\ checkbox' = CheckboxModel_Update(checkbox, k).m
    /\ last' = Call("UpdateKey", CheckboxModel_Update(checkbox, k).msg)
    /\ UNCHANGED <<widget, text, table, plain, tabs, quit, arrays, models>>

CheckboxToggleTick ==
    /\ widget = "checkbox"
    /\ checkbox' = CheckboxModel_ToggleTick(checkbox)
    /\ last' = Call("ToggleTick", "")
    /\ UNCHANGED <<widget, text, table, plain, tabs, quit, arrays, models>>

TabsUpdateBy(k) ==
    /\ widget = "tabs"
    /\ tabs' = TabsModel_Update(tabs, k).m
    /\ last' = Call("UpdateKey", TabsModel_Update(tabs, k).msg)
    /\ UNCHANGED <<widget, text, table, plain, checkbox, quit, arrays, models>>

TabsSetTabsBy(names) ==
    /\ widget = "tabs"
    /\ tabs' = TabsModel_SetTabs(tabs, names)
    /\ last' = Call("SetTabs", "")
    /\ UNCHANGED <<widget, text, table, plain, checkbox, quit, arrays, models>>

QuitUpdateBy(k) ==
    /\ widget = "quit"
    /\ quit' = QuitModel_Update(quit, k).m
    /\ last' = [op |-> "UpdateKey", ret |-> QuitModel_Update(quit, k).msg,
                cmd |-> QuitModel_Update(quit, k).cmd]
    /\ UNCHANGED <<widget, text, table, plain, checkbox, tabs, arrays, models>>

QuitDisplay ==
    /\ widget = "quit"
    /\ quit' = QuitModel_Display(quit)
    /\ last' = [op |-> "Display", ret |-> "", cmd |-> "nil"]
    /\ UNCHANGED <<widget, text, table, plain, checkbox, tabs, arrays, models>>

DialogNext ==
    \/ \E k \in DialogKeys : CheckboxUpdateBy(k)
    \/ CheckboxToggleTick
    \/ \E k \in DialogKeys : TabsUpdateBy(k)
    \/ \E names \in TabLists : TabsSetTabsBy(names)
    \/ \E k \in DialogKeys : QuitUpdateBy(k)
    \/ QuitDisplay

\* NewCheckboxModel() or NewCheckboxModel(WithKeys(DefaultKeys)),
\* NewTabsModel(WithTabs(names...)) or NewQuitModel(); the other widgets are
\* not in use.
DialogInit ==
    /\ widget \in {"checkbox", "tabs", "quit"}
    /\ text = NewTextModel(<<>>)
    /\ table = NewTableModel(<<>>, <<>>)
    /\ plain = NewPlainTable(<<>>)
    /\ \E withKeys \in { <<>>, <<CheckboxDefaultKeys>> } :
          checkbox = IF widget = "checkbox" THEN NewCheckboxModel(withKeys)
                     ELSE NewCheckboxModel(<<>>)
    /\ \E names \in TabLists :
          tabs = IF widget = "tabs" THEN NewTabsModel(names) ELSE NewTabsModel(<<>>)
    /\ quit = NewQuitModel
    /\ arrays = <<>>
    /\ models = <<>>
    /\ last = Call("New", "")

SpecDialog == DialogInit /\ [][DialogNext]_vars

(***************************************************************************)
(* The program with any one of the widgets.                                *)
(***************************************************************************)
Init == TextInit \/ TableInit \/ PlainInit \/ DialogInit

Next == TextNext \/ TableNext \/ PlainNext \/ DialogNext

Spec == Init /\ [][Next]_vars

(***************************************************************************)
(* Vocabulary of the properties below.                                     *)
(***************************************************************************)
Clamp(x, lo, hi) == IF x < lo THEN lo ELSE IF x > hi THEN hi ELSE x

\* Text list: display lines that fit in the window, and the largest scroll.
TextVisibleLines(m) == m.height - 2
TextMaxScroll(m) == Max(0, Len(m.parsedContent) - TextVisibleLines(m))
TextSized(m) == m.fault = "none" /\ m.width > 0 /\ m.height > 0

\* Tables: rows that fit in the window, shown rows, and the largest scroll.
TableVisibleRows(m) == IF m.filter = <<>> THEN m.height - 3 ELSE m.height - 4
TableRowCount(m) == Len(m.filteredContent)
TableMaxScroll(m) == Max(0, TableRowCount(m) - TableVisibleRows(m))
PlainVisibleRows(m) == m.height - 4
PlainMaxScroll(m) == Max(0, Len(m.content) - PlainVisibleRows(m))

\* The keys of KeyInputs that move the selection by a row, and all keys that
\* set the selection.
DownKeys == {k \in KeyInputs : KeyCase(TextDefaultKeys, k) = "SelectLineDown"}
UpKeys == {k \in KeyInputs : KeyCase(TextDefaultKeys, k) = "SelectLineUp"}
SelectionKeys ==
    {k \in KeyInputs : KeyCase(TextDefaultKeys, k) \in
        {"SelectLineDown", "SelectLineUp", "Top", "Bottom", "PageDown", "PageUp"}}

(***************************************************************************)
(* C1.  Text list: whatever operations were called, scrolledTop is at      *)
(* least 0 and at most max(0, len(parsedContent) - (height - 2)).          *)
(***************************************************************************)
TextScrollInRange ==
    (widget = "text" /\ TextSized(text)) =>
        /\ 0 <= text.scrolledTop
        /\ text.scrolledTop <= TextMaxScroll(text)

(***************************************************************************)
(* C2.  Both tables: whatever operations were called, scrolledTop is at    *)
(* least 0 and at most max(0, rowCount - visibleRows), rowCount the number *)
(* of shown rows and visibleRows the rows that fit in the window.          *)
(***************************************************************************)
TableScrollInRange ==
    /\ (widget = "table" /\ table.fault = "none" /\ table.height > 0) =>
            /\ 0 <= table.scrolledTop
            /\ table.scrolledTop <= TableMaxScroll(table)
    /\ (widget = "plain" /\ plain.height > 0) =>
            /\ 0 <= plain.scrolledTop
            /\ plain.scrolledTop <= PlainMaxScroll(plain)

(***************************************************************************)
(* C3.  Text list: after each operation that sets the selection, on a      *)
(* sized widget with content, some display line of the selected row lies   *)
(* in the window [scrolledTop, scrolledTop + height - 2).  Stated for the  *)
(* operations called while scrolledTop is within its bounds.               *)
(***************************************************************************)
TextSelectionInWindow(m) ==
    LET spl == m.selectedParsedLines
    IN  /\ Len(spl) > 0
        /\ spl[1] < m.scrolledTop + TextVisibleLines(m)
        /\ spl[Len(spl)] >= m.scrolledTop

TextSelectionOp ==
    \/ \E numLine \in Lines : TextSetSelectedLineBy(numLine)
    \/ TextSelectLastLine
    \/ \E k \in SelectionKeys : TextUpdateKeyBy(k)
    \/ \E num \in Pages : TextPageScrollBy(num, TRUE)
    \/ \E rows \in TextContents : TextSetContentBy(rows)
    \/ \E rows \in TextAppends : TextAppendContentBy(rows)

TextSelectionStaysVisible ==
    [][(/\ TextSelectionOp
        /\ TextSized(text) /\ text.scrolledTop \in 0 .. TextMaxScroll(text)
        /\ TextSized(text') /\ Len(text'.content) > 0)
          => TextSelectionInWindow(text')]_vars

(***************************************************************************)
(* C4.  Filtering table: after each operation that sets the selection or   *)
(* the content, the selected index lies in [scrolledTop, scrolledTop +     *)
(* visibleRows), or all rows fit in the window and scrolledTop is 0.       *)
(* Stated for the operations called on a sized table whose scrolledTop and *)
(* selection are within their bounds.                                      *)
(***************************************************************************)
TableSelectionInWindow(m) ==
    IF TableRowCount(m) <= TableVisibleRows(m)
    THEN m.scrolledTop = 0
    ELSE /\ m.selectedLine >= m.scrolledTop
         /\ m.selectedLine < m.scrolledTop + TableVisibleRows(m)

TableSelectionOp ==
    \/ \E line \in Lines : TableSetSelectedLineBy(line)
    \/ TableSelectLastLine
    \/ \E k \in SelectionKeys : TableUpdateKeyBy(k)
    \/ \E num \in Pages : TablePageScrollBy(num, TRUE)
    \/ \E filter \in Filters : TableSetFilterBy(filter)
    \/ \E rows \in TableContents : TableSetContentBy(rows)
    \/ \E rows \in TableAppends : TableAppendContentBy(rows)

TableSelectionStaysVisible ==
    [][(/\ TableSelectionOp
        /\ table.height > 3
        /\ table.scrolledTop \in 0 .. TableMaxScroll(table)
        /\ table.selectedLine \in 0 .. Max(0, TableRowCount(table) - 1)
        /\ table'.fault = "none")
          => TableSelectionInWindow(table')]_vars

(***************************************************************************)
(* C5.  Filtering table: in every state that shows at least one row, the   *)
(* selected index is at least 0 and less than the number of shown rows.    *)
(***************************************************************************)
TableSelectionIsRow ==
    (widget = "table" /\ table.fault = "none" /\ table.height > 3
        /\ TableRowCount(table) >= 1)
    => table.selectedLine \in 0 .. TableRowCount(table) - 1

(***************************************************************************)
(* C6.  SetSelectedLine(index) never fails and selects the row             *)
(* clamp(index, 0, rowCount - 1), in the text list and in the table.       *)
(***************************************************************************)
SetSelectedLineClamps ==
    [][/\ \A numLine \in Lines :
            (TextSetSelectedLineBy(numLine) /\ TextSized(text) /\ Len(text.content) > 0)
            => /\ text'.fault = "none"
               /\ text'.selectedLine = Clamp(numLine, 0, Len(text.content) - 1)
       /\ \A line \in Lines :
            (TableSetSelectedLineBy(line) /\ table.height > 3 /\ TableRowCount(table) > 0)
            => /\ table'.fault = "none"
               /\ table'.selectedLine = Clamp(line, 0, TableRowCount(table) - 1)
      ]_vars

(***************************************************************************)
(* C7.  A select-down key on the last row and a select-up key on row 0     *)
(* change neither the selection nor scrolledTop; on every other row the    *)
(* key moves the selection by exactly one row.  Text list and table.       *)
(***************************************************************************)
StepsOneRow(m, n, rowCount, dir) ==
    IF (dir = 1 /\ m.selectedLine = rowCount - 1) \/ (dir = -1 /\ m.selectedLine = 0)
    THEN n.fault = "none" /\ n.selectedLine = m.selectedLine
                          /\ n.scrolledTop = m.scrolledTop
    ELSE n.fault = "none" /\ n.selectedLine = m.selectedLine + dir

SelectionStepDoesNotWrap ==
    [][/\ \A k \in DownKeys \cup UpKeys :
            (TextUpdateKeyBy(k) /\ text.selectedLine \in 0 .. Len(text.content) - 1)
            => StepsOneRow(text, text', Len(text.content),
                           IF k \in DownKeys THEN 1 ELSE -1)
       /\ \A k \in DownKeys \cup UpKeys :
            (TableUpdateKeyBy(k) /\ table.selectedLine \in 0 .. TableRowCount(table) - 1)
            => StepsOneRow(table, table', TableRowCount(table),
                           IF k \in DownKeys THEN 1 ELSE -1)
      ]_vars

(***************************************************************************)
(* C8.  After SetSelectedLine selects a row, scrolledTop has moved by the  *)
(* least amount: it is unchanged when the row's display lines are all in   *)
(* the window, lastLine - visibleLines + 1 when the row ends below the     *)
(* window, firstLine when it starts above.  Rows of any number of display  *)
(* lines that fits the window; text list and table.                        *)
(***************************************************************************)
MinimalScroll(old, first, lastLn, visible) ==
    IF first >= old /\ lastLn < old + visible THEN old
    ELSE IF lastLn >= old + visible THEN lastLn - visible + 1
    ELSE first

SelectionScrollsMinimally ==
    [][/\ \A numLine \in Lines :
            (/\ TextSetSelectedLineBy(numLine)
             /\ TextSized(text) /\ TextSized(text')
             /\ numLine \in 0 .. Len(text.content) - 1
             /\ text.scrolledTop \in 0 .. TextMaxScroll(text')
             /\ Len(text'.selectedParsedLines) \in 1 .. TextVisibleLines(text))
            => LET spl == text'.selectedParsedLines
               IN  text'.scrolledTop =
                     MinimalScroll(text.scrolledTop, spl[1], spl[Len(spl)],
                                   TextVisibleLines(text))
       /\ \A line \in Lines :
            (/\ TableSetSelectedLineBy(line)
             /\ table.height > 3
             /\ line \in 0 .. TableRowCount(table) - 1
             /\ table.scrolledTop \in 0 .. TableMaxScroll(table))
            => table'.scrolledTop =
                 MinimalScroll(table.scrolledTop, line, line, TableVisibleRows(table))
      ]_vars

(***************************************************************************)
(* C9.  ViewScroll(delta) sets scrolledTop to clamp(scrolledTop + delta,   *)
(* 0, maxScroll); a delta past a boundary stops at the boundary.  Text     *)
(* list and table.                                                         *)
(***************************************************************************)
ViewScrollClamps ==
    [][/\ \A num \in Deltas :
            (/\ TextViewScrollBy(num) /\ TextSized(text)
             /\ text.scrolledTop \in 0 .. TextMaxScroll(text))
            => text'.scrolledTop =
                 Clamp(text.scrolledTop + num, 0, TextMaxScroll(text))
       /\ \A num \in Deltas :
            (/\ TableViewScrollBy(num) /\ table.height > 3
             /\ table.scrolledTop \in 0 .. TableMaxScroll(table))
            => table'.scrolledTop =
                 Clamp(table.scrolledTop + num, 0, TableMaxScroll(table))
      ]_vars

(***************************************************************************)
(* C10.  ViewScroll(delta) changes no field of the widget but scrolledTop: *)
(* selection, content, filter and sort state and the wrapped display lines *)
(* are what they were.                                                     *)
(***************************************************************************)
ViewScrollFrame ==
    [][last'.op = "ViewScroll" =>
          /\ text' = [text EXCEPT !.scrolledTop = text'.scrolledTop]
          /\ table' = [table EXCEPT !.scrolledTop = table'.scrolledTop]
          /\ plain' = [plain EXCEPT !.scrolledTop = plain'.scrolledTop]
      ]_vars

\* ViewScroll has just moved the view of a text list off its selected row.
ViewScrollMovedView ==
    /\ widget = "text" /\ TextSized(text)
    /\ last.op = "ViewScroll"
    /\ text.scrolledTop > 0
    /\ text.selectedLine = 0
    /\ Len(text.content) > 1
    /\ ~TextSelectionInWindow(text)

(***************************************************************************)
(* C11.  PageScroll stops at the ends of the content: a page down never    *)
(* lowers scrolledTop, a page up never raises it, a page up at 0 and a     *)
(* page down at maxScroll leave scrolledTop alone, and the result lies in  *)
(* [0, maxScroll].  Text list and table, called on a sized widget whose    *)
(* scrolledTop is within its bounds.                                       *)
(***************************************************************************)
PageSaturates(num, old, new, maxScroll) ==
    /\ num > 0 => new >= old
    /\ num < 0 => new <= old
    /\ (num < 0 /\ old = 0) => new = 0
    /\ (num > 0 /\ old = maxScroll) => new = old
    /\ new \in 0 .. maxScroll

PageScrollSaturates ==
    [][/\ \A num \in Pages, moveSelected \in BOOLEAN :
            (/\ TextPageScrollBy(num, moveSelected) /\ TextSized(text)
             /\ text.scrolledTop \in 0 .. TextMaxScroll(text))
            => /\ text'.fault = "none"
               /\ PageSaturates(num, text.scrolledTop, text'.scrolledTop,
                                TextMaxScroll(text))
       /\ \A num \in Pages, moveSelected \in BOOLEAN :
            (/\ TablePageScrollBy(num, moveSelected) /\ table.height > 3
             /\ table.scrolledTop \in 0 .. TableMaxScroll(table))
            => PageSaturates(num, table.scrolledTop, table'.scrolledTop,
                             TableMaxScroll(table))
      ]_vars

(***************************************************************************)
(* C12.  PageScroll(n, moveSelected) with moveSelected = true leaves the   *)
(* selection on the row at the leading edge of the new page: the row on    *)
(* the last visible line after a page down, the row on the first visible   *)
(* line after a page up.  With moveSelected = false the selection index is *)
(* unchanged.  Text list and table, called on a sized, non-empty widget    *)
(* whose selection and scrolledTop are within their bounds.                *)
(***************************************************************************)
TextLeadingRow(m, num) ==
    LET edge == IF num > 0
                THEN Max(0, Clamp(m.scrolledTop + TextVisibleLines(m) - 1,
                                  0, Len(m.parsedContent) - 1))
                ELSE m.scrolledTop
    IN  MapGetInt(m.selectableParsedLinesMap, edge)

TableLeadingRow(m, num) ==
    IF num > 0
    THEN Clamp(m.scrolledTop + TableVisibleRows(m) - 1, 0, TableRowCount(m) - 1)
    ELSE m.scrolledTop

PageScrollMovesSelection ==
    [][/\ \A num \in Pages, moveSelected \in BOOLEAN :
            (/\ TextPageScrollBy(num, moveSelected) /\ TextSized(text)
             /\ Len(text.content) > 0
             /\ text.selectedLine \in 0 .. Len(text.content) - 1
             /\ text.scrolledTop \in 0 .. TextMaxScroll(text))
            => /\ text'.fault = "none"
               /\ text'.selectedLine =
                     IF moveSelected THEN TextLeadingRow(text', num)
                     ELSE text.selectedLine
       /\ \A num \in Pages, moveSelected \in BOOLEAN :
            (/\ TablePageScrollBy(num, moveSelected) /\ table.height > 3
             /\ TableRowCount(table) > 0
             /\ table.selectedLine \in 0 .. TableRowCount(table) - 1
             /\ table.scrolledTop \in 0 .. TableMaxScroll(table))
            => table'.selectedLine =
                    IF moveSelected THEN TableLeadingRow(table', num)
                    ELSE table.selectedLine
      ]_vars

(***************************************************************************)
(* C13.  Jumping to the first or last row.  The Top key leaves selection   *)
(* = 0 and scrolledTop = 0.  The Bottom key and SelectLastLine leave       *)
(* selection = rowCount - 1 and, when the content does not fit the window, *)
(* scrolledTop = totalDisplayLines - visibleLines exactly.  Text list and  *)
(* table, on a sized, non-empty widget whose selection and scrolledTop are *)
(* within their bounds.                                                    *)
(***************************************************************************)
TextAtTop(m) == m.fault = "none" /\ m.selectedLine = 0 /\ m.scrolledTop = 0

TextAtBottom(m) ==
    /\ m.fault = "none"
    /\ m.selectedLine = Len(m.content) - 1
    /\ Len(m.parsedContent) > TextVisibleLines(m)
          => m.scrolledTop = Len(m.parsedContent) - TextVisibleLines(m)

TableAtTop(m) == m.selectedLine = 0 /\ m.scrolledTop = 0

TableAtBottom(m) ==
    /\ m.selectedLine = TableRowCount(m) - 1
    /\ TableRowCount(m) > TableVisibleRows(m)
          => m.scrolledTop = TableRowCount(m) - TableVisibleRows(m)

TextJumpReady ==
    /\ TextSized(text) /\ Len(text.content) > 0
    /\ text.selectedLine \in 0 .. Len(text.content) - 1
    /\ text.scrolledTop \in 0 .. TextMaxScroll(text)

TableJumpReady ==
    /\ table.height > 3 /\ TableRowCount(table) > 0
    /\ table.selectedLine \in 0 .. TableRowCount(table) - 1
    /\ table.scrolledTop \in 0 .. TableMaxScroll(table)

JumpsToFirstAndLastRow ==
    [][/\ (TextUpdateKeyBy("g") /\ TextJumpReady) => TextAtTop(text')
       /\ ((TextUpdateKeyBy("G") \/ TextSelectLastLine) /\ TextJumpReady)
              => TextAtBottom(text')
       /\ (TableUpdateKeyBy("g") /\ TableJumpReady) => TableAtTop(table')
       /\ ((TableUpdateKeyBy("G") \/ TableSelectLastLine) /\ TableJumpReady)
              => TableAtBottom(table')
      ]_vars

(***************************************************************************)
(* C14.  Text list tie-break: when SetSelectedLine selects a row that      *)
(* wraps to more display lines than the window shows (more than            *)
(* height - 2), it leaves scrolledTop on the first display line of that    *)
(* row: the start of the row is at the top of the window, not its end at   *)
(* the bottom.                                                             *)
(***************************************************************************)
TextRowLines(m, row) == MapGetSeq(m.parsedSelectableLinesMap, row)

TallRowStartsWindow ==
    [][\A line \in Lines :
          (/\ last'.op = "SetSelectedLine" /\ TextSized(text)
           /\ text'.fault = "none"
           /\ TextSetSelectedLineBy(line)
           /\ Len(TextRowLines(text', line)) > TextVisibleLines(text'))
          => text'.scrolledTop = TextRowLines(text', line)[1]
      ]_vars

\* SetSelectedLine has just selected a row after the first that is taller
\* than the window, and the view starts at that row's first line.
TallRowSelected ==
    /\ widget = "text" /\ TextSized(text)
    /\ last.op = "SetSelectedLine"
    /\ text.selectedLine > 0
    /\ Len(TextRowLines(text, text.selectedLine)) > TextVisibleLines(text)
    /\ text.scrolledTop = TextRowLines(text, text.selectedLine)[1]
    /\ text.scrolledTop > 0

(***************************************************************************)
(* C15.  With empty content, SetSelectedLine, SelectLastLine, ViewScroll,  *)
(* PageScroll (with and without moveSelected) and every key leave          *)
(* selection = 0 and scrolledTop = 0, and none of them fails.  Text list   *)
(* and table.                                                              *)
(***************************************************************************)
NavigationOps ==
    {"SetSelectedLine", "SelectLastLine", "ViewScroll", "PageScroll", "UpdateKey"}

EmptyContentIsInert ==
    [][/\ (/\ widget = "text" /\ last'.op \in NavigationOps
           /\ text.fault = "none" /\ Len(text.content) = 0
           /\ text.selectedLine = 0 /\ text.scrolledTop = 0)
          => /\ text'.fault = "none"
             /\ text'.selectedLine = 0 /\ text'.scrolledTop = 0
       /\ (/\ widget = "table" /\ last'.op \in NavigationOps
           /\ table.fault = "none" /\ Len(table.content) = 0
           /\ table.selectedLine = 0 /\ table.scrolledTop = 0)
          => /\ table'.fault = "none"
             /\ table'.selectedLine = 0 /\ table'.scrolledTop = 0
      ]_vars

(***************************************************************************)
(* C16.  Text list: after every re-wrap on a sized widget, each content    *)
(* row has a non-empty, contiguous range of display lines (an empty row    *)
(* exactly one line), the ranges taken in row order partition              *)
(* [0, totalDisplayLines), and the line-to-row map is the inverse of the   *)
(* row-to-lines map.                                                       *)
(***************************************************************************)
\* The operations that always end in parseContent.
RewrapOps == {"SetSize", "SetContent", "AppendContent", "SetSelectedLine", "PageScroll"}

RowRangeOK(m, r) ==
    LET ls == TextRowLines(m, r)
    IN  /\ Len(ls) >= 1
        /\ \A k \in 1 .. Len(ls) - 1 : ls[k + 1] = ls[k] + 1
        /\ ls[1] = IF r = 0 THEN 0
                   ELSE LET prev == TextRowLines(m, r - 1) IN prev[Len(prev)] + 1
        /\ m.content[r + 1] = <<>> => Len(ls) = 1

WrapIndexOK(m) ==
    LET n == Len(m.content)
        total == Len(m.parsedContent)
    IN  /\ DOMAIN m.parsedSelectableLinesMap = 0 .. n - 1
        /\ DOMAIN m.selectableParsedLinesMap = 0 .. total - 1
        /\ \A r \in 0 .. n - 1 : RowRangeOK(m, r)
        /\ IF n = 0 THEN total = 0
           ELSE LET ls == TextRowLines(m, n - 1) IN ls[Len(ls)] = total - 1
        /\ \A p \in 0 .. total - 1, r \in 0 .. n - 1 :
              (m.selectableParsedLinesMap[p] = r)
                 <=> (\E k \in 1 .. Len(TextRowLines(m, r)) : TextRowLines(m, r)[k] = p)

RewrapIndexesRows ==
    [][(/\ widget = "text" /\ last'.op \in RewrapOps
        /\ TextSized(text'))
       => WrapIndexOK(text')]_vars

\* A re-wrap has just indexed a list that holds an empty row and a row that
\* takes several display lines.
RewrappedMixedRows ==
    /\ widget = "text" /\ last.op \in RewrapOps /\ TextSized(text)
    /\ Len(text.content) >= 2
    /\ \E r \in 0 .. Len(text.content) - 1 : text.content[r + 1] = <<>>
    /\ \E r \in 0 .. Len(text.content) - 1 : Len(TextRowLines(text, r)) > 1
    /\ WrapIndexOK(text)

(***************************************************************************)
(* C17.  Hard split.  With W = width - 2 > 0, a row that is one token of   *)
(* n > W letters is wrapped to ceil(n / W) display lines: every line but   *)
(* the last has exactly W letters, the last has between 1 and W, and the   *)
(* lines joined in order give the token back.                              *)
(***************************************************************************)
IsToken(row) == \A k \in 1 .. Len(row) : row[k] # " "

RECURSIVE JoinLines(_, _)
JoinLines(lines, k) ==
    IF k > Len(lines) THEN <<>> ELSE lines[k] \o JoinLines(lines, k + 1)

\* The display lines of row r, without their styling.
TextRowTexts(m, r) ==
    LET ls == TextRowLines(m, r)
    IN  [k \in 1 .. Len(ls) |-> m.parsedContent[ls[k] + 1].text]

HardSplitOK(token, W, lines) ==
    /\ Len(lines) = (Len(token) + W - 1) \div W
    /\ \A k \in 1 .. Len(lines) - 1 : Len(lines[k]) = W
    /\ Len(lines[Len(lines)]) \in 1 .. W
    /\ JoinLines(lines, 1) = token

WrapOps == {"SetSize", "SetContent", "AppendContent"}

LongTokenIsHardSplit ==
    [][(/\ widget = "text" /\ last'.op \in WrapOps
        /\ TextSized(text') /\ text'.width - 2 > 0)
       => \A r \in 0 .. Len(text'.content) - 1 :
             LET row == text'.content[r + 1]
             IN  (IsToken(row) /\ Len(row) > text'.width - 2)
                    => HardSplitOK(row, text'.width - 2, TextRowTexts(text', r))
      ]_vars

\* A token has just been split to three or more lines, the last of them
\* shorter than the others.
LongTokenSplit ==
    /\ widget = "text" /\ last.op \in WrapOps
    /\ TextSized(text) /\ text.width - 2 > 0
    /\ \E r \in 0 .. Len(text.content) - 1 :
          /\ IsToken(text.content[r + 1])
          /\ Len(text.content[r + 1]) > text.width - 2
          /\ Len(TextRowTexts(text, r)) >= 3
          /\ Len(TextRowTexts(text, r)[Len(TextRowTexts(text, r))]) < text.width - 2
          /\ HardSplitOK(text.content[r + 1], text.width - 2, TextRowTexts(text, r))

(***************************************************************************)
(* C18.  Re-wrapping terminates: SetSize returns for every content, width  *)
(* and height it is given, widths 1 and 2 included.  (A call that never    *)
(* returns leaves fault = "hang".)                                         *)
(***************************************************************************)
SetSizeTerminates ==
    [][(widget = "text" /\ last'.op = "SetSize") => text'.fault # "hang"]_vars

(***************************************************************************)
(* C19.  While the text list has width <= 0 or height <= 0, SetSize (to    *)
(* such a size), SetContent and AppendContent leave the display lines and  *)
(* the index exactly as they were, and do not fail.                        *)
(***************************************************************************)
TextUnsized(width, height) == width <= 0 \/ height <= 0

SameWrap(m1, m2) ==
    /\ m2.parsedContent = m1.parsedContent
    /\ m2.selectedParsedLines = m1.selectedParsedLines
    /\ m2.selectableParsedLinesMap = m1.selectableParsedLinesMap
    /\ m2.parsedSelectableLinesMap = m1.parsedSelectableLinesMap

UnsizedKeepsWrap ==
    [][/\ \A size \in WrapSizes :
            (TextSetSizeBy(size) /\ TextUnsized(size[1], size[2]))
            => text'.fault = "none" /\ SameWrap(text, text')
       /\ (/\ widget = "text" /\ last'.op \in {"SetContent", "AppendContent"}
           /\ text.fault = "none" /\ TextUnsized(text.width, text.height))
          => text'.fault = "none" /\ SameWrap(text, text')
      ]_vars

(***************************************************************************)
(* C20.  Text list: after every operation that changes the content or the  *)
(* width (SetContent, AppendContent, SetSize, and a WindowSizeMsg given to *)
(* Update), the display lines and the index are the wrap of the current    *)
(* content at the current width.                                           *)
(***************************************************************************)
\* The wrap of m's content at m's width, whatever m holds as its wrap.
FreshWrap(m) ==
    ParseRows(m, 0,
       [m EXCEPT !.parsedContent = <<>>,
                 !.selectedParsedLines = <<>>,
                 !.selectableParsedLinesMap = EmptyMap,
                 !.parsedSelectableLinesMap = EmptyMap])

WrapIsCurrent ==
    [][(/\ widget = "text"
        /\ last'.op \in {"SetContent", "AppendContent", "SetSize", "UpdateSize"}
        /\ text.fault = "none"
        /\ TextSized(text'))
       => SameWrap(FreshWrap(text'), text')]_vars

(***************************************************************************)
(* C21.  SetFilter(text) makes the filtered rows exactly the content rows  *)
(* in which at least one configured filter column contains text as a       *)
(* substring, letter case ignored, in their original relative order; the   *)
(* empty text selects every row in the original order.                     *)
(***************************************************************************)
\* Whether cell holds sub at some position once both are folded to lower case.
HoldsIgnoringCase(cell, sub) ==
    \E k \in 1 .. Len(cell) - Len(sub) + 1 :
        \A i \in 1 .. Len(sub) : LowerChar(cell[k + i - 1]) = LowerChar(sub[i])

RowsHolding(content, cols, sub) ==
    IF sub = <<>> THEN content
    ELSE SelectSeq(content,
           LAMBDA row : \E c \in 1 .. Len(cols) : HoldsIgnoringCase(row[cols[c] + 1], sub))

SetFilterSelectsMatches ==
    [][\A filter \in SortFilters :
          (last'.op = "SetFilter" /\ TableSetFilterBy(filter))
          => /\ table'.fault = "none"
             /\ table'.filteredContent =
                   RowsHolding(table.content, table.filterColums, filter)
      ]_vars

(***************************************************************************)
(* C22.  SetFilter(text) resets the view to the top: after the call        *)
(* selection = 0 and scrolledTop = 0, whatever they were before and        *)
(* whatever the filter text is.                                            *)
(***************************************************************************)
SetFilterResetsView ==
    [][(widget = "table" /\ last'.op = "SetFilter")
       => /\ table'.fault = "none"
          /\ table'.selectedLine = 0 /\ table'.scrolledTop = 0
      ]_vars

(***************************************************************************)
(* C23.  Filter idempotence: after any sequence of SetFilter calls, a      *)
(* final SetFilter("") makes the filtered rows equal to the raw content:   *)
(* the same rows in the same order.                                        *)
(***************************************************************************)
EmptyFilterRestoresContent ==
    [][(last'.op = "SetFilter" /\ TableSetFilterBy(<<>>))
       => /\ table'.fault = "none"
          /\ table'.filteredContent = table.content
          /\ table'.content = table.content
      ]_vars

(***************************************************************************)
(* C24.  Derived rows of the filtering table.  In every reachable state,   *)
(* the one right after construction with WithContent included,             *)
(* filteredContent is the filter applied to the current content, and       *)
(* sortedContent (the rows View draws) is a permutation of filteredContent *)
(* ordered by the current sort column and direction.                       *)
(***************************************************************************)
Occurrences(s, x) == Cardinality({k \in 1 .. Len(s) : s[k] = x})

IsPermutation(s, t) ==
    /\ Len(s) = Len(t)
    /\ \A k \in 1 .. Len(t) : Occurrences(s, t[k]) = Occurrences(t, t[k])

\* s is in the order of m's sort column and direction; unsorted, it is t.
InSortOrder(m, s, t) ==
    IF m.sortOrder = SortUnsorted THEN s = t
    ELSE \A k \in 1 .. Len(s) - 1 : SortCmp(m, s[k], s[k + 1]) <= 0

DerivedRowsConsistent ==
    (widget = "table" /\ table.fault = "none")
    => /\ table.filteredContent =
             RowsHolding(table.content, table.filterColums, table.filter)
       /\ IsPermutation(table.sortedContent, table.filteredContent)
       /\ InSortOrder(table, table.sortedContent, table.filteredContent)

(***************************************************************************)
(* C25.  Sort(column, direction) with a column outside the header range    *)
(* [0, len(headers)), too large or negative, is rejected: the sort column, *)
(* the sort direction, the sorted rows, the selection and the scroll are   *)
(* unchanged, and the call does not fail.                                  *)
(***************************************************************************)
SortRejectsBadColumn ==
    [][\A col \in -1 .. 2, dir \in SortOrders :
          (/\ last'.op = "Sort" /\ (col < 0 \/ col >= table.headers)
           /\ TableSortBy(col, dir))
          => table' = table
      ]_vars

(***************************************************************************)
(* C26.  Sort reversal: when the filtered rows have pairwise distinct keys *)
(* in column col, the rows after Sort(col, SortDescending) are exactly the *)
(* reverse of the rows after Sort(col, SortAscendig).                      *)
(***************************************************************************)
Reverse(s) == [k \in 1 .. Len(s) |-> s[Len(s) - k + 1]]

DistinctKeys(rows, col) ==
    \A i, j \in 1 .. Len(rows) : i # j => rows[i][col + 1] # rows[j][col + 1]

DescendingReversesAscending ==
    [][\A col \in 0 .. 1 :
          (/\ last'.op = "Sort" /\ DistinctKeys(table.filteredContent, col)
           /\ TableSortBy(col, SortDescending))
          => /\ table'.fault = "none"
             /\ table'.sortedContent =
                   Reverse(TableModel_Sort(table, col, SortAscendig).sortedContent)
      ]_vars

\* Sort(0, SortDescending) has just ordered three rows with distinct keys
\* that were neither in ascending nor in descending order.
SortedDescending ==
    /\ widget = "table" /\ table.fault = "none" /\ last.op = "Sort"
    /\ table.sortOrder = SortDescending /\ table.sortByCol = 0
    /\ Len(table.filteredContent) = 3
    /\ DistinctKeys(table.filteredContent, 0)
    /\ table.sortedContent # table.filteredContent
    /\ table.sortedContent # Reverse(table.filteredContent)
    /\ IsPermutation(table.sortedContent, table.filteredContent)

(***************************************************************************)
(* C27.  Sort(col, SortUnsorted) restores the filter order: after any      *)
(* sequence of Sort calls, a Sort with direction SortUnsorted on a column  *)
(* of the table makes the sorted rows equal to the filtered rows, in their *)
(* order, and this stays so after a following SetFilter, SetContent or     *)
(* AppendContent.                                                          *)
(***************************************************************************)
UnsortedRestoresFilterOrder ==
    [][/\ \A col \in 0 .. 1 :
            (last'.op = "Sort" /\ TableSortBy(col, SortUnsorted))
            => /\ table'.fault = "none"
               /\ table'.sortedContent = table'.filteredContent
               /\ table'.filteredContent = table.filteredContent
       /\ (/\ widget = "table" /\ table.fault = "none"
           /\ table.sortOrder = SortUnsorted
           /\ last'.op \in {"SetFilter", "SetContent", "AppendContent"})
          => /\ table'.fault = "none"
             /\ table'.sortOrder = SortUnsorted
             /\ table'.sortedContent = table'.filteredContent
      ]_vars

\* Sort(col, SortUnsorted) has just put back rows that an ascending sort on
\* the first column orders differently.
SortRemoved ==
    /\ widget = "table" /\ table.fault = "none" /\ last.op = "Sort"
    /\ table.sortOrder = SortUnsorted /\ table.sortByCol = 0
    /\ Len(table.filteredContent) >= 2
    /\ table.sortedContent = table.filteredContent
    /\ table.sortedContent #
          TableModel_Sort(table, 0, SortAscendig).sortedContent

(***************************************************************************)
(* C28.  Sorting is stable: after Sort(col, SortAscendig) or               *)
(* Sort(col, SortDescending), filtered rows whose keys in column col       *)
(* compare equal are in the sorted rows in the same relative order as in   *)
(* the filtered rows.                                                      *)
(***************************************************************************)
\* The rows of s whose key in column col compares equal to key, in order.
RowsWithKey(s, col, key) ==
    SelectSeq(s, LAMBDA row : CompareString(row[col + 1], key) = 0)

SortIsStable ==
    [][\A col \in 0 .. 1, dir \in {SortAscendig, SortDescending} :
          (last'.op = "Sort" /\ TableSortBy(col, dir))
          => /\ table'.fault = "none"
             /\ \A k \in 1 .. Len(table.filteredContent) :
                   LET key == table.filteredContent[k][col + 1]
                   IN  RowsWithKey(table'.sortedContent, col, key)
                          = RowsWithKey(table.filteredContent, col, key)
      ]_vars

(***************************************************************************)
(* C29.  Scroll bar thumb.  Whenever the content does not fit the window   *)
(* (more lines than visible lines), the border is drawn without a division *)
(* by zero and holds exactly one thumb cell, in a row within               *)
(* [0, visibleLines); the thumb is on the last row exactly when            *)
(* scrolledTop = maxScroll, not earlier.  Text list and table; the table   *)
(* is taken without a filter line, which would cost it a visible row.      *)
(***************************************************************************)
ThumbOK(thumb, visible, scrolledTop, maxScroll) ==
    /\ thumb.fault = "none"
    /\ Cardinality(thumb.rows) = 1
    /\ thumb.rows \subseteq 0 .. visible - 1
    /\ (visible - 1 \in thumb.rows) <=> (scrolledTop = maxScroll)

ThumbReachesEndAtMaxScroll ==
    /\ (/\ widget = "text" /\ TextSized(text) /\ text.height >= 3
        /\ Len(text.parsedContent) > TextVisibleLines(text)
        /\ text.scrolledTop \in 0 .. TextMaxScroll(text))
       => ThumbOK(TextModel_Thumb(text), TextVisibleLines(text),
                  text.scrolledTop, TextMaxScroll(text))
    /\ (/\ widget = "table" /\ table.fault = "none" /\ table.height >= 4
        /\ table.filter = <<>>
        /\ Len(table.sortedContent) > table.height - 3
        /\ table.scrolledTop \in 0 .. Len(table.sortedContent) - (table.height - 3))
       => ThumbOK(TableModel_Thumb(table), table.height - 3,
                  table.scrolledTop, Len(table.sortedContent) - (table.height - 3))

(***************************************************************************)
(* C30.  A bound key is consumed.  When Update receives a key message that *)
(* equals one of the widget's registered bindings, the message it returns  *)
(* to the caller is nil, not the key.  Text list and table.                *)
(***************************************************************************)
BoundKeyIsConsumed ==
    [][\A k \in KeyInputs :
        /\ (/\ last'.op = "UpdateKey"
            /\ KeyCase(TextDefaultKeys, k) # "default"
            /\ TextUpdateKeyBy(k)) => last'.ret = "nil"
        /\ (/\ last'.op = "UpdateKey"
            /\ KeyCase(TableDefaultKeys, k) # "default"
            /\ TableUpdateKeyBy(k)) => last'.ret = "nil"]_vars

(***************************************************************************)
(* C31.  Unrecognized keys pass through.  For every key message that       *)
(* matches none of the widget's bindings, Update of the text list, the     *)
(* tables, the tabs and the checkbox returns that same message and leaves  *)
(* the widget (selection, scroll, content, selected tab, tick) unchanged.  *)
(***************************************************************************)
UnboundKeysPassThrough ==
    [][/\ \A k \in KeyInputs :
            /\ (/\ last'.op = "UpdateKey"
                /\ KeyCase(TextDefaultKeys, k) = "default"
                /\ TextUpdateKeyBy(k)) => (last'.ret = "msg" /\ text' = text)
            /\ (/\ last'.op = "UpdateKey"
                /\ KeyCase(TableDefaultKeys, k) = "default"
                /\ TableUpdateKeyBy(k)) => (last'.ret = "msg" /\ table' = table)
            /\ (/\ last'.op = "UpdateKey"
                /\ KeyCase(TableDefaultKeys, k) = "default"
                /\ PlainUpdateKeyBy(k)) => (last'.ret = "msg" /\ plain' = plain)
       /\ \A k \in DialogKeys :
            /\ (/\ last'.op = "UpdateKey"
                /\ k \notin {tabs.keys.Next1, tabs.keys.Next2, tabs.keys.Next3,
                             tabs.keys.Prev1, tabs.keys.Prev2, tabs.keys.Prev3}
                /\ TabsUpdateBy(k)) => (last'.ret = "msg" /\ tabs' = tabs)
            /\ (/\ last'.op = "UpdateKey"
                /\ k \notin {checkbox.keys.Tick1, checkbox.keys.Tick2,
                             checkbox.keys.Tick3, checkbox.keys.Tick4}
                /\ CheckboxUpdateBy(k))
               => (last'.ret = "msg" /\ checkbox' = checkbox)]_vars

\* A ticked checkbox with the default keys has handed a key back.
KeyPassedThrough ==
    /\ widget = "checkbox"
    /\ checkbox.keys = CheckboxDefaultKeys
    /\ checkbox.ticked
    /\ last = Call("UpdateKey", "msg")

(***************************************************************************)
(* C33.  Quit dialog.  While the dialog is displayed it takes every key    *)
(* message and passes none on: the returned message is nil for Yes, No,    *)
(* Next, SelectButton and unbound keys alike.  While it is hidden every    *)
(* key other than a Show key is returned unchanged, the dialog unchanged.  *)
(***************************************************************************)
QuitDialogTakesKeys ==
    [][\A k \in DialogKeys :
        (/\ last'.op = "UpdateKey"
         /\ QuitUpdateBy(k))
        => IF quit.displayed
           THEN last'.ret = "nil"
           ELSE k \notin {quit.keys.Show1, quit.keys.Show2, quit.keys.Show3}
                => (last'.ret = "msg" /\ quit' = quit)]_vars

(***************************************************************************)
(* C34.  A checkbox created without WithKeys uses DefaultKeys: an Update   *)
(* with the Enter key or the space key toggles the tick and consumes the   *)
(* message.                                                                *)
(***************************************************************************)
CheckboxDefaultKeysToggle ==
    [][\A k \in {CheckboxDefaultKeys.Tick1, CheckboxDefaultKeys.Tick2} :
        (/\ last'.op = "UpdateKey"
         /\ checkbox.keys = NewCheckboxModel(<<>>).keys
         /\ CheckboxUpdateBy(k))
        => (checkbox'.ticked = ~checkbox.ticked /\ last'.ret = "nil")]_vars

(***************************************************************************)
(* C38.  Tabs.  After any sequence of Next and Prev keys and of SetTabs    *)
(* calls with a non-empty tab list, 0 <= selectedTab < len(tabs).  Next on *)
(* the last tab goes to tab 0 and Prev on tab 0 to the last tab: Next      *)
(* selects (selectedTab + 1) mod len(tabs) and Prev selects                *)
(* (selectedTab - 1) mod len(tabs), so Next then Prev, and len(tabs) Next  *)
(* presses, return to the same tab.                                        *)
(***************************************************************************)
TabSelected(m) == m.selectedTab \in 0 .. Len(m.tabs) - 1

TabsWrapAround ==
    [][/\ (widget = "tabs" /\ last'.op \in {"UpdateKey", "SetTabs"})
          => TabSelected(tabs')
       /\ \A k \in DialogKeys :
            (/\ last'.op = "UpdateKey"
             /\ TabSelected(tabs)
             /\ TabsUpdateBy(k))
            => /\ k \in {tabs.keys.Next1, tabs.keys.Next2, tabs.keys.Next3}
                  => tabs'.selectedTab = (tabs.selectedTab + 1) % Len(tabs.tabs)
               /\ k \in {tabs.keys.Prev1, tabs.keys.Prev2, tabs.keys.Prev3}
                  => tabs'.selectedTab =
                        (tabs.selectedTab + Len(tabs.tabs) - 1) % Len(tabs.tabs)]_vars

(***************************************************************************)
(* C39.  Quit dialog safety.  The quit command is returned only while the  *)
(* dialog is displayed, and only for a Yes key or for a SelectButton key   *)
(* with the Yes button selected (selectedButton = 0).  A No key, or a      *)
(* SelectButton key with the No button selected, hides the dialog and      *)
(* returns no quit command.  selectedButton is always 0 or 1, and each     *)
(* Next key the displayed dialog receives flips it.                        *)
(***************************************************************************)
QuitOnlyOnYes ==
    [][\A k \in DialogKeys :
        (/\ last'.op = "UpdateKey"
         /\ QuitUpdateBy(k))
        => LET yes == k \in {quit.keys.Yes1, quit.keys.Yes2, quit.keys.Yes3}
               no == k \in {quit.keys.No1, quit.keys.No2, quit.keys.No3}
               next == k \in {quit.keys.Next1, quit.keys.Next2, quit.keys.Next3,
                              quit.keys.Next4, quit.keys.Next5}
               select == k \in {quit.keys.SelectButton1, quit.keys.SelectButton2,
                                quit.keys.SelectButton3}
           IN  /\ last'.cmd = "Quit"
                  => (quit.displayed /\ (yes \/ (select /\ quit.selectedButton = 0)))
               /\ (quit.displayed /\ (no \/ (select /\ quit.selectedButton = 1)))
                  => (~quit'.displayed /\ last'.cmd = "nil")
               /\ quit'.selectedButton \in {0, 1}
               /\ (quit.displayed /\ next)
                  => quit'.selectedButton = 1 - quit.selectedButton]_vars

\* The displayed dialog, its Yes button selected, has returned the quit
\* command.
QuitReturned ==
    /\ widget = "quit"
    /\ last.op = "UpdateKey"
    /\ last.cmd = "Quit"
    /\ quit.displayed
    /\ quit.selectedButton = 0

(***************************************************************************)
(* C37.  Text list AppendContent follows the tail only when the selection  *)
(* is on the last row.  If selection = rowCount - 1 before the call, then  *)
(* afterwards the selection is the new last row and, when the content does *)
(* not fit, scrolledTop = totalDisplayLines - (height - 2); otherwise      *)
(* selection and scrolledTop are unchanged.  In both cases the rows        *)
(* present before are unchanged and the new rows follow them in order.     *)
(***************************************************************************)
AppendFollowsTail ==
    [][\A rows \in TextAppends :
        (/\ last'.op = "AppendContent"
         /\ TextAppendContentBy(rows))
        => /\ text'.fault = "none"
           /\ text'.content = text.content \o rows
           /\ IF text.selectedLine = Len(text.content) - 1
              THEN /\ text'.selectedLine = Len(text'.content) - 1
                   /\ Len(text'.parsedContent) > text'.height - 2
                      => text'.scrolledTop =
                            Len(text'.parsedContent) - (text'.height - 2)
              ELSE /\ text'.selectedLine = text.selectedLine
                   /\ text'.scrolledTop = text.scrolledTop]_vars

\* A sized text list, its last row selected, has been appended to, and the
\* rows no longer fit.
AppendedAtTail ==
    /\ widget = "text"
    /\ last.op = "AppendContent"
    /\ TextSized(text)
    /\ Len(text.content) >= 2
    /\ text.selectedLine = Len(text.content) - 1
    /\ Len(text.parsedContent) > text.height - 2
    /\ text.scrolledTop = Len(text.parsedContent) - (text.height - 2)

(***************************************************************************)
(* C35.  Line scrolling can reach both ends.  From any reachable state of  *)
(* the text list with content taller than the window, repeating the        *)
(* scroll-up key eventually brings scrolledTop to 0, and repeating the     *)
(* scroll-down key eventually brings it to maxScroll; each press that is   *)
(* not at the boundary changes scrolledTop by exactly 1.                   *)
(***************************************************************************)
TextTall ==
    /\ widget = "text"
    /\ TextSized(text)
    /\ Len(text.parsedContent) > TextVisibleLines(text)

ScrollKeysReachEnds ==
    /\ <>[][ScrollUpKey]_vars => <>[](TextTall => text.scrolledTop = 0)
    /\ <>[][ScrollDownKey]_vars
          => <>[](TextTall => text.scrolledTop = TextMaxScroll(text))
    /\ [][/\ (TextTall /\ text.scrolledTop > 0 /\ ScrollUpKey)
             => text'.scrolledTop = text.scrolledTop - 1
          /\ (TextTall /\ text.scrolledTop < TextMaxScroll(text) /\ ScrollDownKey)
             => text'.scrolledTop = text.scrolledTop + 1]_vars

(***************************************************************************)
(* C36.  Rendering never indexes out of range.  In every reachable state   *)
(* of the filtering table with height >= 4, 0 <= scrolledTop <=            *)
(* min(visibleRows + scrolledTop, len(sortedContent)), so the slice        *)
(* sortedContent[scrolledTop : end] taken by View is valid.                *)
(***************************************************************************)
ViewSliceIsValid ==
    (widget = "table" /\ table.fault = "none" /\ table.height >= 4)
    => LET height == IF table.filter # <<>> THEN table.height - 1 ELSE table.height
           rows == height - 3 + table.scrolledTop
           linesHeight == IF rows < Len(table.sortedContent)
                          THEN rows ELSE Len(table.sortedContent)
       IN  0 <= table.scrolledTop /\ table.scrolledTop <= linesHeight

(***************************************************************************)
(* C32.  Value semantics.  A mutating operation applied to a model value m *)
(* returns a new model and leaves the observable state of m (content rows, *)
(* selection, scroll) unchanged, also after further operations on the      *)
(* returned model or a second operation on m; no two model values share    *)
(* mutable state.  Checked for AppendContent of the text list: a call on   *)
(* one value changes no row, selection or scroll of any value the host     *)
(* holds, the one it assigns the result to excepted.                       *)
(***************************************************************************)
ValuesShareNoState ==
    [][\A i \in 1 .. MaxModels, j \in 1 .. MaxModels, rows \in SharedRows :
        (/\ last'.op = "AppendContent"
         /\ SharedAppendContentBy(i, j, rows))
        => \A v \in 1 .. Len(models) :
              v # j => /\ models'[v] = models[v]
                       /\ GetContent(arrays', models'[v]) = GetContent(arrays, models[v])]_vars

====
